---- MODULE Spec2Model ----
(***************************************************************************)
(* Chart asset ingestion and reconciliation of uc-chart-backend:           *)
(* the upload handler (src/api/charts/upload.py) and the edit handler      *)
(* (src/api/charts/{id}/edit.py) against the object store and the          *)
(* relational store.                                                       *)
(*                                                                         *)
(* A request is one cooperative task.  It is modelled as a sequence of     *)
(* steps, one per slot it processes and one per store operation, so that   *)
(* the awaits at which another request may run are visible.                *)
(***************************************************************************)
EXTENDS Integers, Sequences, FiniteSets, TLC

VARIABLES
    charts,        \* relational store: chart id -> row (AbsentRow when absent)
    leaderboards,  \* relational store: set of leaderboard records
    s3,            \* object store: key -> stored bytes
    req,           \* request handlers: task -> its local variables
    debug,         \* app.debug
    nreq,          \* requests started so far
    faults,        \* store operations that may still fail
    slotcap,       \* slots one edit request may touch
    reqcap,        \* requests that may be started
    accounts,      \* relational store: account row of every user
    now            \* the clock, in minutes

vars == <<charts, leaderboards, s3, req, debug, nreq, faults, slotcap, reqcap,
          accounts, now>>

(***************************************************************************)
(* Bounds of the model.                                                    *)
(***************************************************************************)
MaxRequests == 2
MaxCharts == 1
MaxEditSlots == 2
MaxFaults == 1
MaxProcs == 2
MaxEditSlotsConc == 1
MaxEditSlotsDebug == 1
MaxReplays == 2
MaxClock == 1

Procs == 1..MaxProcs
ChartIds == 1..MaxCharts
Users == {"u1", "u2"}
Uploaders == {"u1"}
Staff == {"mod1", "adm1"}

(***************************************************************************)
(* Values.                                                                 *)
(***************************************************************************)
None == <<"None">>
Unbound == <<"Unbound">>
NoFile == "NoFile"

\* The hash columns of a chart row.
HashKeys ==
    {"background_file_hash", "background_v1_file_hash", "background_v3_file_hash",
     "jacket_file_hash", "chart_file_hash", "music_file_hash", "preview_file_hash"}

\* The local hash variables of a handler.
HashVars ==
    {"chart_hash", "jacket_hash", "v1_hash", "v3_hash", "audio_hash",
     "preview_hash", "background_hash"}

\* Files a client may attach, per form field.
ScriptFiles ==
    {"sus_ok", "sus_bad", "usc_ok", "lvd_py", "lvd_py_gz", "lvd_ns", "lvd_ns_gz", "junk"}
JacketFiles == {"jpg_raw", "png_a", "png_b", "mp3_a"}
AudioFiles == {"mp3_a", "mp3_b", "png_a"}
PreviewFiles == {"mp3_a", "mp3_b", "png_a"}
BackgroundFiles == {"png_a", "png_b", "jpg_raw"}

\* helpers.constants: the per-kind maximum file sizes, in bytes.
MAX_FILE_SIZES ==
    [jacket |-> 7864320, chart |-> 20971520, audio |-> 52428800,
     preview |-> 5242880, background |-> 15728640]

\* helpers.constants: the maximum lengths of the text fields.
MAX_TEXT_SIZES ==
    [description |-> 1000, artists |-> 50, author |-> 50, title |-> 50,
     per_tag |-> 10, tags_count |-> 3]

\* helpers.constants: the range of a rating.
MAX_RATINGS == [min |-> -999, max |-> 999]

\* The sizes a client's file of a kind may have: the maximum and one byte more.
Sizes(kind) == {MAX_FILE_SIZES[kind], MAX_FILE_SIZES[kind] + 1}

\* The metadata of a request (ChartUploadData, ChartEditData): a text field
\* is its length (0: not given or empty), tags are their lengths, and the
\* rating is <<>> (not given) or <<r>>.
NoMeta ==
    [title |-> 0, artists |-> 0, author |-> 0, description |-> 0,
     tags |-> <<>>, rating |-> <<>>]

\* Metadata with every field exactly at its limit.
AtLimit(r) ==
    [title |-> MAX_TEXT_SIZES.title, artists |-> MAX_TEXT_SIZES.artists,
     author |-> MAX_TEXT_SIZES.author, description |-> MAX_TEXT_SIZES.description,
     tags |-> [i \in 1..MAX_TEXT_SIZES.tags_count |-> MAX_TEXT_SIZES.per_tag],
     rating |-> <<r>>]

\* Metadata with one field one step over its limit.
OverLimit ==
    {[AtLimit(MAX_RATINGS.max) EXCEPT !.title = @ + 1],
     [AtLimit(MAX_RATINGS.max) EXCEPT !.artists = @ + 1],
     [AtLimit(MAX_RATINGS.max) EXCEPT !.author = @ + 1],
     [AtLimit(MAX_RATINGS.max) EXCEPT !.description = @ + 1],
     [AtLimit(MAX_RATINGS.max) EXCEPT !.tags = Append(@, 1)],
     [AtLimit(MAX_RATINGS.max) EXCEPT !.tags = <<MAX_TEXT_SIZES.per_tag + 1>>],
     AtLimit(MAX_RATINGS.max + 1),
     AtLimit(MAX_RATINGS.min - 1)}

\* The metadata a client may send with an upload and with an edit.
UploadMetas == {AtLimit(MAX_RATINGS.max)} \cup OverLimit
EditMetas == {AtLimit(MAX_RATINGS.min)} \cup OverLimit

\* The data field of a request: JSON that does not validate (there is no
\* metadata then), or metadata.
DataInputs(metas) ==
    {[malformed |-> TRUE, meta |-> NoMeta]}
    \cup {[malformed |-> FALSE, meta |-> m] : m \in metas}

(***************************************************************************)
(* Pure helpers.                                                           *)
(***************************************************************************)

\* A variant of LimitsExceeded that leaves the tags unchecked.
LimitsExceededLax(m) ==
    \/ m.description > MAX_TEXT_SIZES.description
    \/ m.artists > MAX_TEXT_SIZES.artists
    \/ m.title > MAX_TEXT_SIZES.title
    \/ m.author > MAX_TEXT_SIZES.author
    \/ \E i \in 1..Len(m.rating) : m.rating[i] > MAX_RATINGS.max
    \/ \E i \in 1..Len(m.rating) : m.rating[i] < MAX_RATINGS.min

\* The length checks of the metadata (upload.py lines 47-58, edit.py lines
\* 53-64): TRUE when a limit is exceeded.
LimitsExceeded(m) ==
    \/ m.description > MAX_TEXT_SIZES.description
    \/ m.artists > MAX_TEXT_SIZES.artists
    \/ m.title > MAX_TEXT_SIZES.title
    \/ m.author > MAX_TEXT_SIZES.author
    \/ \E i \in 1..Len(m.tags) : m.tags[i] > MAX_TEXT_SIZES.per_tag
    \/ Len(m.tags) > MAX_TEXT_SIZES.tags_count
    \/ \E i \in 1..Len(m.rating) : m.rating[i] > MAX_RATINGS.max
    \/ \E i \in 1..Len(m.rating) : m.rating[i] < MAX_RATINGS.min

\* helpers.hashing.calculate_sha1: the digest of a byte string.  Distinct
\* byte strings of the model have distinct digests.
calculate_sha1(b) == <<"sha1", b>>

\* The media type a file's bytes are sniffed as.
ContentType(b) ==
    CASE b \in {"mp3_a", "mp3_b"} -> "audio/mpeg"
      [] b \in {"png_a", "png_b"} -> "image/png"
      [] b = "jpg_raw" -> "image/jpeg"
      [] OTHER -> "other"

\* helpers.file_checks.get_and_check_file: TRUE when the file passes the check
\* for the expected type (the bytes are then returned unchanged).
FileCheckOk(b, expected) ==
    IF expected = "image"
    THEN ContentType(b) \in {"image/png", "image/jpeg"}
    ELSE ContentType(b) = expected

\* helpers.backgrounds.generate_backgrounds_resize_jacket: (v1, v3, jacket).
\* A JPEG is re-encoded; an image that already is the normalized PNG comes
\* back byte for byte.
generate_backgrounds_resize_jacket(b) ==
    CASE b \in {"jpg_raw", "png_a"} ->
            [v1 |-> "png_a_v1", v3 |-> "png_a_v3", jacket |-> "png_a"]
      [] OTHER ->
            [v1 |-> "png_b_v1", v3 |-> "png_b_v3", jacket |-> "png_b"]

\* What a script payload is: its dialect, and for a canonical payload
\* (LevelData) its producer tag and whether it is gzip-compressed.
ScriptInfo(b) ==
    CASE b \in {"sus_ok", "sus_bad"} ->
            [fmt |-> "sus", producer |-> "", compressed |-> FALSE]
      [] b = "usc_ok" -> [fmt |-> "usc", producer |-> "", compressed |-> FALSE]
      [] b = "lvd_py" -> [fmt |-> "lvd", producer |-> "pysekai", compressed |-> FALSE]
      [] b = "lvd_py_gz" -> [fmt |-> "lvd", producer |-> "pysekai", compressed |-> TRUE]
      [] b = "lvd_ns" -> [fmt |-> "lvd", producer |-> "nextsekai", compressed |-> FALSE]
      [] b = "lvd_ns_gz" -> [fmt |-> "lvd", producer |-> "nextsekai", compressed |-> TRUE]
      [] OTHER -> [fmt |-> "none", producer |-> "", compressed |-> FALSE]

\* gzip.GzipFile(filename="LevelData", mtime=0): deterministic compression.
Gzip(b) ==
    CASE b = "lvd_py" -> "lvd_py_gz"
      [] b = "lvd_ns" -> "lvd_ns_gz"
      [] OTHER -> "gz_other"

\* sonolus_converters.<dialect>.load then next_sekai.export: the canonical
\* container of a script, or "error" when the script does not parse.
Export(b) ==
    CASE b = "sus_ok" -> "lvl_sus_gz"
      [] b = "usc_ok" -> "lvl_usc_gz"
      [] OTHER -> "error"

\* convert() of the upload handler: the bytes to store, or "error" (any
\* exception of convert is answered with 400).
ConvertUpload(b, dbg) ==
    LET i == ScriptInfo(b) IN
    CASE i.fmt \in {"sus", "usc"} -> Export(b)
      [] i.fmt = "lvd" ->
            IF i.producer # "nextsekai" /\ ~dbg THEN "error"
            ELSE IF ~i.compressed THEN Gzip(b)
            ELSE b
      [] OTHER -> "error"

\* A variant of ConvertEdit that compresses every canonical payload, also
\* one that is compressed already.
ConvertEditRecompress(b) ==
    LET i == ScriptInfo(b) IN
    CASE i.fmt \in {"sus", "usc"} -> Export(b)
      [] i.fmt = "lvd" -> IF i.producer # "pysekai" THEN "error" ELSE Gzip(b)
      [] OTHER -> "error"

\* convert() of the edit handler.
ConvertEdit(b) ==
    LET i == ScriptInfo(b) IN
    CASE i.fmt \in {"sus", "usc"} -> Export(b)
      [] i.fmt = "lvd" ->
            IF i.producer # "pysekai" THEN "error"
            ELSE IF ~i.compressed THEN Gzip(b)
            ELSE b
      [] OTHER -> "error"

\* sonolus_converters.detect: FALSE when no recognizer matches.
DetectValid(b) == ScriptInfo(b).fmt # "none"

\* The object key of an asset blob: f"{owner}/{chart_id}/{hash}".
AssetKey(owner, id, h) == <<owner, id, h>>

\* Keys under f"{author}/{id}/replays/".
IsReplayKey(k, author, id) ==
    Len(k) = 5 /\ k[1] = author /\ k[2] = id /\ k[3] = "replays"


(***************************************************************************)
(* Rows and handler locals.                                                *)
(***************************************************************************)
FileSlots == {"chart", "jacket", "audio", "preview", "background"}

\* timedelta(minutes=1) of update_cooldown, in minutes.
UploadCooldown == 1

\* The accounts: the users and the staff.
Accounts == Users \cup Staff

\* The account rows before any upload: no cooldown, and the roles.
InitAccounts ==
    [u \in Accounts |->
        [chart_upload_cooldown |-> <<>>, mod |-> u = "mod1", admin |-> u = "adm1"]]

\* No row of the leaderboards table.
NoRecord ==
    [id |-> 0, chart_id |-> 0, submitter |-> "none",
     replay_data_hash |-> None, replay_config_hash |-> None,
     arcade_score |-> 0, speed |-> <<>>]
Flags ==
    {"includes_chart", "includes_jacket", "includes_audio", "includes_preview",
     "includes_background", "delete_preview", "delete_background"}

AbsentRow ==
    [exists |-> FALSE, author |-> "none", meta |-> NoMeta,
     hashes |-> [k \in HashKeys |-> None]]

\* The locals of a handler that has not started.
IdleReq ==
    [pc |-> "idle", kind |-> "none", user |-> "none", id |-> 0,
     old |-> AbsentRow,
     meta |-> NoMeta,
     data |-> [f \in Flags |-> FALSE],
     attached |-> [f \in FileSlots |-> FALSE],
     size |-> [f \in FileSlots |-> 0],
     script |-> NoFile,
     touched |-> 0,
     s3_uploads |-> <<>>, old_deletes |-> <<>>,
     h |-> [v \in HashVars |-> Unbound],
     chart_updated |-> FALSE,
     tasks |-> <<>>,
     status |-> 0,
     at |-> "none",
     dbreads |-> 0,
     dbwrites |-> 0,
     dbfailed |-> FALSE,
     replay |-> [data |-> NoFile, config |-> NoFile, speed |-> <<>>],
     curr |-> NoRecord,
     seq |-> 0,
     result |-> "",
     record_id |-> 0]

\* raise HTTPException(status_code=code).
Reject(r, code) == [r EXCEPT !.pc = "done", !.status = code, !.at = r.pc]

\* One entry of s3_uploads.
UploadEntry(owner, id, bytes) ==
    [path |-> AssetKey(owner, id, calculate_sha1(bytes)),
     hash |-> calculate_sha1(bytes),
     bytes |-> bytes]

\* Bookkeeping of a slot's inputs: the flags of data, whether the form field
\* carries a file, and the count of slots the request touches.
Note(r, slot, f, flags) ==
    [r EXCEPT !.data = [k \in Flags |-> IF k \in DOMAIN flags THEN flags[k] ELSE @[k]],
              !.attached[slot] = (f # NoFile),
              !.script = IF slot = "chart" THEN f ELSE @,
              !.touched = IF f # NoFile \/ (\E k \in DOMAIN flags : flags[k])
                          THEN @ + 1 ELSE @]

(***************************************************************************)
(* The edit handler, slot by slot (edit.py lines 83-314).                  *)
(***************************************************************************)

\* chart_file (lines 83-160).
EditChartStep(r0, f, oversize, includes) ==
    LET r == Note(r0, "chart", f, [includes_chart |-> includes]) IN
    IF f # NoFile
    THEN IF oversize THEN Reject(r, 413)
         ELSE IF includes
         THEN IF ~DetectValid(f) THEN Reject(r, 400)
              ELSE LET chart_bytes == ConvertEdit(f)
                       chart_hash == calculate_sha1(chart_bytes)
                       r2 == [r EXCEPT !.h["chart_hash"] = chart_hash,
                                       !.chart_updated = TRUE,
                                       !.pc = "jacket"]
                   IN  IF chart_bytes = "error" THEN Reject(r, 400)
                       ELSE IF chart_hash # r.old.hashes["chart_file_hash"]
                       THEN [r2 EXCEPT
                               !.s3_uploads = Append(@, UploadEntry(r.user, r.id, chart_bytes)),
                               !.old_deletes = Append(@, "chart_file_hash")]
                       ELSE r2
         ELSE Reject(r, 400)
    ELSE IF includes THEN Reject(r, 400)
    ELSE [r EXCEPT !.pc = "jacket"]

\* A variant of EditJacketStep that leaves the two derived variants of the
\* old jacket out of old_deletes.
EditJacketStepKeepVariants(r0, f, oversize, includes) ==
    LET r == Note(r0, "jacket", f, [includes_jacket |-> includes]) IN
    IF f # NoFile
    THEN IF oversize THEN Reject(r, 413)
         ELSE IF includes
         THEN IF ~FileCheckOk(f, "image") THEN Reject(r, 400)
              ELSE LET raw_hash == calculate_sha1(f)
                       g == generate_backgrounds_resize_jacket(f)
                   IN  IF raw_hash # r.old.hashes["jacket_file_hash"]
                       THEN [r EXCEPT
                               !.h["jacket_hash"] = calculate_sha1(g.jacket),
                               !.h["v1_hash"] = calculate_sha1(g.v1),
                               !.h["v3_hash"] = calculate_sha1(g.v3),
                               !.s3_uploads = @ \o <<UploadEntry(r.user, r.id, g.jacket),
                                                     UploadEntry(r.user, r.id, g.v1),
                                                     UploadEntry(r.user, r.id, g.v3)>>,
                               !.old_deletes = Append(@, "jacket_file_hash"),
                               !.pc = "audio"]
                       ELSE [r EXCEPT !.h["jacket_hash"] = raw_hash, !.pc = "audio"]
         ELSE Reject(r, 400)
    ELSE IF includes THEN Reject(r, 400)
    ELSE [r EXCEPT !.pc = "audio"]

\* jacket_image (lines 161-212).  The submitted bytes are compared with the
\* stored hash before normalization; the hash kept is the one after it.
EditJacketStep(r0, f, oversize, includes) ==
    LET r == Note(r0, "jacket", f, [includes_jacket |-> includes]) IN
    IF f # NoFile
    THEN IF oversize THEN Reject(r, 413)
         ELSE IF includes
         THEN IF ~FileCheckOk(f, "image") THEN Reject(r, 400)
              ELSE LET raw_hash == calculate_sha1(f)
                       g == generate_backgrounds_resize_jacket(f)
                   IN  IF raw_hash # r.old.hashes["jacket_file_hash"]
                       THEN [r EXCEPT
                               !.h["jacket_hash"] = calculate_sha1(g.jacket),
                               !.h["v1_hash"] = calculate_sha1(g.v1),
                               !.h["v3_hash"] = calculate_sha1(g.v3),
                               !.s3_uploads = @ \o <<UploadEntry(r.user, r.id, g.jacket),
                                                     UploadEntry(r.user, r.id, g.v1),
                                                     UploadEntry(r.user, r.id, g.v3)>>,
                               !.old_deletes = @ \o <<"jacket_file_hash",
                                                      "background_v1_file_hash",
                                                      "background_v3_file_hash">>,
                               !.pc = "audio"]
                       ELSE [r EXCEPT !.h["jacket_hash"] = raw_hash, !.pc = "audio"]
         ELSE Reject(r, 400)
    ELSE IF includes THEN Reject(r, 400)
    ELSE [r EXCEPT !.pc = "audio"]

\* audio_file (lines 213-242).
EditAudioStep(r0, f, oversize, includes) ==
    LET r == Note(r0, "audio", f, [includes_audio |-> includes]) IN
    IF f # NoFile
    THEN IF oversize THEN Reject(r, 413)
         ELSE IF includes
         THEN IF ~FileCheckOk(f, "audio/mpeg") THEN Reject(r, 400)
              ELSE LET audio_hash == calculate_sha1(f)
                       r2 == [r EXCEPT !.h["audio_hash"] = audio_hash,
                                       !.chart_updated = TRUE,
                                       !.pc = "preview"]
                   IN  IF audio_hash # r.old.hashes["music_file_hash"]
                       THEN [r2 EXCEPT
                               !.s3_uploads = Append(@, UploadEntry(r.user, r.id, f)),
                               !.old_deletes = Append(@, "music_file_hash")]
                       ELSE r2
         ELSE Reject(r, 400)
    ELSE IF includes THEN Reject(r, 400)
    ELSE [r EXCEPT !.pc = "preview"]

\* A variant of EditPreviewStep that takes a file with includes_preview even
\* when delete_preview is set as well.
EditPreviewStepLax(r0, f, oversize, includes, delete) ==
    LET r == Note(r0, "preview", f,
                  [includes_preview |-> includes, delete_preview |-> delete]) IN
    IF f # NoFile
    THEN IF oversize THEN Reject(r, 413)
         ELSE IF includes
         THEN IF ~FileCheckOk(f, "audio/mpeg") THEN Reject(r, 400)
              ELSE LET preview_hash == calculate_sha1(f)
                       r2 == [r EXCEPT !.h["preview_hash"] = preview_hash,
                                       !.pc = "background"]
                   IN  IF preview_hash # r.old.hashes["preview_file_hash"]
                       THEN [r2 EXCEPT
                               !.s3_uploads = Append(@, UploadEntry(r.user, r.id, f)),
                               !.old_deletes = Append(@, "preview_file_hash")]
                       ELSE r2
         ELSE Reject(r, 400)
    ELSE IF delete /\ ~includes
         THEN [r EXCEPT !.old_deletes = Append(@, "preview_file_hash"),
                        !.pc = "background"]
    ELSE IF includes THEN Reject(r, 400)
    ELSE [r EXCEPT !.pc = "background"]

\* preview_file (lines 243-278).
EditPreviewStep(r0, f, oversize, includes, delete) ==
    LET r == Note(r0, "preview", f,
                  [includes_preview |-> includes, delete_preview |-> delete]) IN
    IF f # NoFile
    THEN IF oversize THEN Reject(r, 413)
         ELSE IF includes /\ ~delete
         THEN IF ~FileCheckOk(f, "audio/mpeg") THEN Reject(r, 400)
              ELSE LET preview_hash == calculate_sha1(f)
                       r2 == [r EXCEPT !.h["preview_hash"] = preview_hash,
                                       !.pc = "background"]
                   IN  IF preview_hash # r.old.hashes["preview_file_hash"]
                       THEN [r2 EXCEPT
                               !.s3_uploads = Append(@, UploadEntry(r.user, r.id, f)),
                               !.old_deletes = Append(@, "preview_file_hash")]
                       ELSE r2
         ELSE Reject(r, 400)
    ELSE IF delete /\ ~includes
         THEN [r EXCEPT !.old_deletes = Append(@, "preview_file_hash"),
                        !.pc = "background"]
    ELSE IF includes THEN Reject(r, 400)
    ELSE [r EXCEPT !.pc = "background"]

\* A variant of EditBackgroundStep that clears the column on delete_background
\* without putting the old background in old_deletes.
EditBackgroundStepNoDelete(r0, f, oversize, includes, delete) ==
    LET r == Note(r0, "background", f,
                  [includes_background |-> includes, delete_background |-> delete]) IN
    IF f # NoFile
    THEN IF oversize THEN Reject(r, 413)
         ELSE IF includes /\ ~delete
         THEN IF ~FileCheckOk(f, "image/png") THEN Reject(r, 400)
              ELSE LET background_hash == calculate_sha1(f)
                       r2 == [r EXCEPT !.h["background_hash"] = background_hash,
                                       !.pc = "batch"]
                   IN  IF background_hash # r.old.hashes["background_file_hash"]
                       THEN [r2 EXCEPT
                               !.s3_uploads = Append(@, UploadEntry(r.user, r.id, f)),
                               !.old_deletes = Append(@, "background_file_hash")]
                       ELSE r2
         ELSE Reject(r, 400)
    ELSE IF delete /\ ~includes THEN [r EXCEPT !.pc = "batch"]
    ELSE IF includes THEN Reject(r, 400)
    ELSE [r EXCEPT !.pc = "batch"]

\* background_image (lines 279-314).
EditBackgroundStep(r0, f, oversize, includes, delete) ==
    LET r == Note(r0, "background", f,
                  [includes_background |-> includes, delete_background |-> delete]) IN
    IF f # NoFile
    THEN IF oversize THEN Reject(r, 413)
         ELSE IF includes /\ ~delete
         THEN IF ~FileCheckOk(f, "image/png") THEN Reject(r, 400)
              ELSE LET background_hash == calculate_sha1(f)
                       r2 == [r EXCEPT !.h["background_hash"] = background_hash,
                                       !.pc = "batch"]
                   IN  IF background_hash # r.old.hashes["background_file_hash"]
                       THEN [r2 EXCEPT
                               !.s3_uploads = Append(@, UploadEntry(r.user, r.id, f)),
                               !.old_deletes = Append(@, "background_file_hash")]
                       ELSE r2
         ELSE Reject(r, 400)
    ELSE IF delete /\ ~includes
         THEN [r EXCEPT !.old_deletes = Append(@, "background_file_hash"),
                        !.pc = "batch"]
    ELSE IF includes THEN Reject(r, 400)
    ELSE [r EXCEPT !.pc = "batch"]


(***************************************************************************)
(* The diff of an edit and the batch of store operations                   *)
(* (edit.py lines 316-371, upload.py lines 252-269).                       *)
(***************************************************************************)
Range(seq) == {seq[i] : i \in 1..Len(seq)}

RECURSIVE SetToSeq(_)
SetToSeq(S) ==
    IF S = {} THEN <<>>
    ELSE LET x == CHOOSE y \in S : TRUE IN <<x>> \o SetToSeq(S \ {x})

\* kept_hashes (lines 325-331).
KeptHashes(r) ==
    {r.old.hashes[k] : k \in HashKeys \ Range(r.old_deletes)}

\* deleted_candidate_hashes (lines 332-336).
DeletedCandidateHashes(r) ==
    {r.old.hashes[k] : k \in Range(r.old_deletes)}

\* A variant of DeletedHashes that does not subtract kept_hashes.
DeletedHashesAll(r) == DeletedCandidateHashes(r)

\* deleted_hashes (line 337).
DeletedHashes(r) == DeletedCandidateHashes(r) \ KeptHashes(r)

\* The loop over s3_uploads: one put per distinct hash, the first entry wins.
RECURSIVE UploadTasks(_, _)
UploadTasks(uploads, alr_added_hashes) ==
    IF uploads = <<>> THEN <<>>
    ELSE LET file == Head(uploads) IN
         IF file.hash \in alr_added_hashes
         THEN UploadTasks(Tail(uploads), alr_added_hashes)
         ELSE <<[op |-> "put", key |-> file.path, bytes |-> file.bytes, st |-> "pending"]>>
              \o UploadTasks(Tail(uploads), alr_added_hashes \cup {file.hash})

\* The loop over deleted_hashes: one delete per hash.
DeleteTasks(r) ==
    LET hs == SetToSeq(DeletedHashes(r)) IN
    [i \in 1..Len(hs) |->
        [op |-> "delete", key |-> AssetKey(r.user, r.id, hs[i]), bytes |-> "", st |-> "pending"]]

\* The deletes of the objects listed under the chart's replays/ prefix.
ReplayDeleteTasks(r, store) ==
    LET ks == SetToSeq({k \in DOMAIN store : IsReplayKey(k, r.old.author, r.id)}) IN
    [i \in 1..Len(ks) |->
        [op |-> "delete", key |-> ks[i], bytes |-> "", st |-> "pending"]]

\* The tasks handed to asyncio.gather by the edit handler.
EditTasks(r, store) ==
    DeleteTasks(r) \o UploadTasks(r.s3_uploads, {})
    \o (IF r.chart_updated THEN ReplayDeleteTasks(r, store) ELSE <<>>)

Pending(r) == {i \in 1..Len(r.tasks) : r.tasks[i].st = "pending"}
Failed(r) == {i \in 1..Len(r.tasks) : r.tasks[i].st = "failed"}

\* Operations on different keys commute, so such a batch is resolved key by key
\* in the order of the task list; the operations on one key land in any order.
\* A batch with a delete_objects call, which names two keys, is resolved in
\* every order.
CanResolve(r, i) ==
    /\ i \in Pending(r)
    /\ \/ r.kind = "replay"
       \/ LET m == CHOOSE j \in Pending(r) : \A k \in Pending(r) : j <= k
          IN  r.tasks[i].key = r.tasks[m].key

\* The object store after one operation has landed.
Apply(store, t) ==
    CASE t.op = "put" ->
            [k \in DOMAIN store \cup {t.key} |-> IF k = t.key THEN t.bytes ELSE store[k]]
      [] t.op = "delete_objects" ->
            [k \in DOMAIN store \ Range(t.key) |-> store[k]]
      [] OTHER ->
            [k \in DOMAIN store \ {t.key} |-> store[k]]


(***************************************************************************)
(* The upload handler, file by file (upload.py lines 41-251).              *)
(***************************************************************************)

\* A variant of UploadSizesOk that takes a file of exactly the maximum size
\* for too large.
UploadSizesOkStrict(r) ==
    /\ r.size["jacket"] < MAX_FILE_SIZES["jacket"]
    /\ r.size["chart"] < MAX_FILE_SIZES["chart"]
    /\ r.size["audio"] < MAX_FILE_SIZES["audio"]
    /\ r.attached["preview"] => r.size["preview"] < MAX_FILE_SIZES["preview"]
    /\ r.attached["background"] => r.size["background"] < MAX_FILE_SIZES["background"]

\* The size checks (lines 107-127): TRUE when no file is too large.
UploadSizesOk(r) ==
    /\ ~(\/ r.size["jacket"] > MAX_FILE_SIZES["jacket"]
         \/ r.size["chart"] > MAX_FILE_SIZES["chart"]
         \/ r.size["audio"] > MAX_FILE_SIZES["audio"])
    /\ r.attached["preview"] => ~(r.size["preview"] > MAX_FILE_SIZES["preview"])
    /\ r.attached["background"] => ~(r.size["background"] > MAX_FILE_SIZES["background"])

\* A variant of UploadOpen without the cooldown check.
UploadOpenNoCooldown(r, malformed, cooldown, dbg, t) ==
    IF malformed THEN Reject(r, 422)
    ELSE IF LimitsExceeded(r.meta) THEN Reject(r, 400)
    ELSE IF ~UploadSizesOk(r) THEN Reject(r, 413)
    ELSE [r EXCEPT !.pc = "jacket"]

\* The checks before any file is read (lines 41-127); cooldown is
\* user.chart_upload_cooldown (<<>> for None) and t the time read at line 99.
UploadOpen(r, malformed, cooldown, dbg, t) ==
    IF malformed THEN Reject(r, 422)
    ELSE IF LimitsExceeded(r.meta) THEN Reject(r, 400)
    ELSE IF cooldown # <<>> /\ ~dbg /\ t < cooldown[1] THEN Reject(r, 429)
    ELSE IF ~UploadSizesOk(r) THEN Reject(r, 413)
    ELSE [r EXCEPT !.pc = "jacket"]

\* A variant of UploadJacketStep that hands the jacket's puts to the object
\* store as soon as the jacket is processed, before the script is validated.
UploadJacketStepEager(r, f) ==
    IF ~FileCheckOk(f, "image") THEN Reject(r, 400)
    ELSE LET g == generate_backgrounds_resize_jacket(f)
             entries == <<UploadEntry(r.user, r.id, g.v1),
                          UploadEntry(r.user, r.id, g.v3),
                          UploadEntry(r.user, r.id, g.jacket)>>
         IN  [r EXCEPT !.h["jacket_hash"] = calculate_sha1(g.jacket),
                       !.h["v1_hash"] = calculate_sha1(g.v1),
                       !.h["v3_hash"] = calculate_sha1(g.v3),
                       !.s3_uploads = @ \o entries,
                       !.tasks = UploadTasks(entries, {}),
                       !.pc = "chart"]

\* A variant of UploadJacketStep that takes the hash of the first variant for
\* the second one as well.
UploadJacketStepSwapped(r, f) ==
    IF ~FileCheckOk(f, "image") THEN Reject(r, 400)
    ELSE LET g == generate_backgrounds_resize_jacket(f) IN
         [r EXCEPT !.h["jacket_hash"] = calculate_sha1(g.jacket),
                   !.h["v1_hash"] = calculate_sha1(g.v1),
                   !.h["v3_hash"] = calculate_sha1(g.v1),
                   !.s3_uploads = @ \o <<UploadEntry(r.user, r.id, g.v1),
                                         UploadEntry(r.user, r.id, g.v3),
                                         UploadEntry(r.user, r.id, g.jacket)>>,
                   !.pc = "chart"]

\* jacket_image (lines 132-162).
UploadJacketStep(r, f) ==
    IF ~FileCheckOk(f, "image") THEN Reject(r, 400)
    ELSE LET g == generate_backgrounds_resize_jacket(f) IN
         [r EXCEPT !.h["jacket_hash"] = calculate_sha1(g.jacket),
                   !.h["v1_hash"] = calculate_sha1(g.v1),
                   !.h["v3_hash"] = calculate_sha1(g.v3),
                   !.s3_uploads = @ \o <<UploadEntry(r.user, r.id, g.v1),
                                         UploadEntry(r.user, r.id, g.v3),
                                         UploadEntry(r.user, r.id, g.jacket)>>,
                   !.pc = "chart"]

\* A variant of UploadChartStep that hashes the script as it was submitted.
UploadChartStepRawHash(r0, f, dbg) ==
    LET r == [r0 EXCEPT !.script = f] IN
    IF ~DetectValid(f) THEN Reject(r, 400)
    ELSE LET chart_bytes == ConvertUpload(f, dbg) IN
         IF chart_bytes = "error" THEN Reject(r, 400)
         ELSE [r EXCEPT !.h["chart_hash"] = calculate_sha1(f),
                        !.s3_uploads = Append(@,
                            [path |-> AssetKey(r.user, r.id, calculate_sha1(f)),
                             hash |-> calculate_sha1(f),
                             bytes |-> chart_bytes]),
                        !.pc = "audio"]

\* chart_file (lines 164-216).
UploadChartStep(r0, f, dbg) ==
    LET r == [r0 EXCEPT !.script = f] IN
    IF ~DetectValid(f) THEN Reject(r, 400)
    ELSE LET chart_bytes == ConvertUpload(f, dbg) IN
         IF chart_bytes = "error" THEN Reject(r, 400)
         ELSE [r EXCEPT !.h["chart_hash"] = calculate_sha1(chart_bytes),
                        !.s3_uploads = Append(@, UploadEntry(r.user, r.id, chart_bytes)),
                        !.pc = "audio"]

\* audio_file (lines 218-227).
UploadAudioStep(r, f) ==
    IF ~FileCheckOk(f, "audio/mpeg") THEN Reject(r, 400)
    ELSE [r EXCEPT !.h["audio_hash"] = calculate_sha1(f),
                   !.s3_uploads = Append(@, UploadEntry(r.user, r.id, f)),
                   !.pc = "preview"]

\* preview_file (lines 229-239).
UploadPreviewStep(r, f) ==
    IF f = NoFile THEN [r EXCEPT !.pc = "background"]
    ELSE IF ~FileCheckOk(f, "audio/mpeg") THEN Reject(r, 400)
    ELSE [r EXCEPT !.h["preview_hash"] = calculate_sha1(f),
                   !.attached["preview"] = TRUE,
                   !.s3_uploads = Append(@, UploadEntry(r.user, r.id, f)),
                   !.pc = "background"]

\* background_image (lines 241-251).
UploadBackgroundStep(r, f) ==
    IF f = NoFile THEN [r EXCEPT !.pc = "batch"]
    ELSE IF ~FileCheckOk(f, "image/png") THEN Reject(r, 400)
    ELSE [r EXCEPT !.h["background_hash"] = calculate_sha1(f),
                   !.attached["background"] = TRUE,
                   !.s3_uploads = Append(@, UploadEntry(r.user, r.id, f)),
                   !.pc = "batch"]

\* A variant of UploadRow that leaves the preview column empty.
UploadRowNoPreview(r) ==
    [exists |-> TRUE, author |-> r.user, meta |-> r.meta,
     hashes |->
        [k \in HashKeys |->
            CASE k = "jacket_file_hash" -> r.h["jacket_hash"]
              [] k = "music_file_hash" -> r.h["audio_hash"]
              [] k = "chart_file_hash" -> r.h["chart_hash"]
              [] k = "background_v1_file_hash" -> r.h["v1_hash"]
              [] k = "background_v3_file_hash" -> r.h["v3_hash"]
              [] k = "preview_file_hash" -> None
              [] OTHER ->
                    IF r.attached["background"] THEN r.h["background_hash"] ELSE None]]

\* Chart(...) of create_chart (lines 270-288).
UploadRow(r) ==
    [exists |-> TRUE, author |-> r.user, meta |-> r.meta,
     hashes |->
        [k \in HashKeys |->
            CASE k = "jacket_file_hash" -> r.h["jacket_hash"]
              [] k = "music_file_hash" -> r.h["audio_hash"]
              [] k = "chart_file_hash" -> r.h["chart_hash"]
              [] k = "background_v1_file_hash" -> r.h["v1_hash"]
              [] k = "background_v3_file_hash" -> r.h["v3_hash"]
              [] k = "preview_file_hash" ->
                    IF r.attached["preview"] THEN r.h["preview_hash"] ELSE None
              [] OTHER ->
                    IF r.attached["background"] THEN r.h["background_hash"] ELSE None]]

(***************************************************************************)
(* The metadata commit of an edit (edit.py lines 372-409).                 *)
(***************************************************************************)

\* The local hash variables the call of update_file_hash reads (lines 390-398).
QueryReads(r) ==
    (IF r.data["includes_jacket"] /\ r.attached["jacket"]
     THEN {"jacket_hash", "v1_hash", "v3_hash"} ELSE {})
    \cup (IF r.data["includes_audio"] /\ r.attached["audio"] THEN {"audio_hash"} ELSE {})
    \cup (IF r.data["includes_chart"] /\ r.attached["chart"] THEN {"chart_hash"} ELSE {})
    \cup (IF r.data["includes_preview"] /\ r.attached["preview"] THEN {"preview_hash"} ELSE {})
    \cup (IF r.data["includes_background"] /\ r.attached["background"]
          THEN {"background_hash"} ELSE {})

\* Reading a local that was never assigned raises UnboundLocalError.
QueryRaises(r) == \E v \in QueryReads(r) : r.h[v] = Unbound

\* The argument of update_file_hash for one column (None: leave the column).
QueryArg(r, v) == IF v \in QueryReads(r) THEN r.h[v] ELSE None

\* database.charts.update_file_hash: a column is set when its argument is
\* not None, and an optional column is cleared when its update_none flag is set.
update_file_hash(row, r) ==
    LET set(k, v) == IF QueryArg(r, v) # None THEN QueryArg(r, v) ELSE row.hashes[k] IN
    [row EXCEPT !.hashes =
        [k \in HashKeys |->
            CASE k = "jacket_file_hash" -> set(k, "jacket_hash")
              [] k = "music_file_hash" -> set(k, "audio_hash")
              [] k = "chart_file_hash" -> set(k, "chart_hash")
              [] k = "background_v1_file_hash" -> set(k, "v1_hash")
              [] k = "background_v3_file_hash" -> set(k, "v3_hash")
              [] k = "preview_file_hash" ->
                    IF r.data["delete_preview"] THEN None ELSE set(k, "preview_hash")
              [] OTHER ->
                    IF r.data["delete_background"] THEN None ELSE set(k, "background_hash")]]

\* database.charts.update_metadata: a field that is given replaces the
\* column; the description column is cleared when no description is given.
update_metadata(row, r) ==
    [row EXCEPT !.meta =
        [title |-> IF r.meta.title # 0 THEN r.meta.title ELSE @.title,
         artists |-> IF r.meta.artists # 0 THEN r.meta.artists ELSE @.artists,
         author |-> IF r.meta.author # 0 THEN r.meta.author ELSE @.author,
         description |-> r.meta.description,
         tags |-> IF r.meta.tags # <<>> THEN r.meta.tags ELSE @.tags,
         rating |-> IF r.meta.rating # <<>> THEN r.meta.rating ELSE @.rating]]

\* The statements of the database block of an edit (lines 404-409).
EditStatements(r) == IF r.chart_updated THEN 3 ELSE 2

\* The tables <<charts, leaderboards>> after the first k statements of the
\* database block of an edit have been executed (lines 404-409).
EditDb(r, tables, k) ==
    LET row0 == tables[1][r.id]
        row1 == IF k >= 1 THEN update_metadata(row0, r) ELSE row0
        row2 == IF k >= 2 THEN update_file_hash(row1, r) ELSE row1
    IN  <<[tables[1] EXCEPT ![r.id] = row2],
          IF k >= 3 THEN {l \in tables[2] : l.chart_id # r.id} ELSE tables[2]>>

\* A variant of db_acquire whose statements take effect one by one, whether
\* or not the block ends normally.
db_acquire_autocommit(before, after, ok) == after

\* core.ChartFastAPI.db_acquire: the statements of the block are one
\* transaction, committed when the block ends normally and rolled back when
\* it raises.
db_acquire(before, after, ok) == IF ok THEN after ELSE before


(***************************************************************************)
(* Actions.                                                                *)
(***************************************************************************)
Stores == <<charts, leaderboards, s3, accounts>>

\* The configuration and the clock, which no handler changes.
Config == <<debug, slotcap, reqcap, now>>

Free(p) == req[p].pc \in {"idle", "done"}

\* uuid.uuid4(): an id no chart, blob or running request carries.
UsedIds ==
    {i \in ChartIds : charts[i].exists}
    \cup {k[2] : k \in DOMAIN s3}
    \cup {req[p].id : p \in {q \in Procs : req[q].kind = "upload" /\ ~Free(q)}}

\* The files a request may carry: the sizes of the attached ones.
FileSizes(attached) ==
    {[k \in FileSlots |-> IF k \in attached THEN MAX_FILE_SIZES[k] + over[k] ELSE 0] :
        over \in [attached -> {0, 1}]}

\* POST /charts/upload: the request arrives and is checked (lines 41-130).
UploadStart(p) ==
    /\ Free(p)
    /\ nreq < reqcap
    /\ ChartIds \ UsedIds # {}
    /\ \E user \in Uploaders, data \in DataInputs(UploadMetas),
          optional \in SUBSET {"preview", "background"} :
        \E size \in FileSizes({"jacket", "chart", "audio"} \cup optional) :
        LET r == [IdleReq EXCEPT !.kind = "upload", !.user = user,
                                 !.id = CHOOSE i \in ChartIds \ UsedIds : TRUE,
                                 !.meta = data.meta,
                                 !.attached = [k \in FileSlots |-> size[k] > 0],
                                 !.size = size]
        IN  req' = [req EXCEPT ![p] =
                      UploadOpen(r, data.malformed,
                                 accounts[user].chart_upload_cooldown, debug, now)]
    /\ nreq' = nreq + 1
    /\ UNCHANGED <<Stores, Config, faults>>

UploadJacket(p) ==
    /\ req[p].kind = "upload" /\ req[p].pc = "jacket"
    /\ \E f \in JacketFiles : req' = [req EXCEPT ![p] = UploadJacketStep(@, f)]
    /\ UNCHANGED <<Stores, Config, nreq, faults>>

UploadChart(p) ==
    /\ req[p].kind = "upload" /\ req[p].pc = "chart"
    /\ \E f \in ScriptFiles : req' = [req EXCEPT ![p] = UploadChartStep(@, f, debug)]
    /\ UNCHANGED <<Stores, Config, nreq, faults>>

UploadAudio(p) ==
    /\ req[p].kind = "upload" /\ req[p].pc = "audio"
    /\ \E f \in AudioFiles : req' = [req EXCEPT ![p] = UploadAudioStep(@, f)]
    /\ UNCHANGED <<Stores, Config, nreq, faults>>

UploadPreview(p) ==
    /\ req[p].kind = "upload" /\ req[p].pc = "preview"
    /\ \E f \in IF req[p].attached["preview"] THEN PreviewFiles ELSE {NoFile} :
        req' = [req EXCEPT ![p] = UploadPreviewStep(@, f)]
    /\ UNCHANGED <<Stores, Config, nreq, faults>>

UploadBackground(p) ==
    /\ req[p].kind = "upload" /\ req[p].pc = "background"
    /\ \E f \in IF req[p].attached["background"] THEN BackgroundFiles ELSE {NoFile} :
        req' = [req EXCEPT ![p] = UploadBackgroundStep(@, f)]
    /\ UNCHANGED <<Stores, Config, nreq, faults>>

\* The batch of puts is handed to asyncio.gather (lines 252-269).
UploadBatch(p) ==
    /\ req[p].kind = "upload" /\ req[p].pc = "batch"
    /\ req' = [req EXCEPT ![p].tasks = UploadTasks(req[p].s3_uploads, {}),
                          ![p].pc = "gather"]
    /\ UNCHANGED <<Stores, Config, nreq, faults>>

\* accounts.update_cooldown: the user's cooldown ends time_to_add from t.
update_cooldown(row, t, time_to_add) ==
    [row EXCEPT !.chart_upload_cooldown = <<t + time_to_add>>]

\* The tables <<charts, accounts>> after the first k statements of the
\* database block of an upload have been executed (lines 294-298).
UploadDb(r, tables, t, k) ==
    <<IF k >= 1 THEN [tables[1] EXCEPT ![r.id] = UploadRow(r)] ELSE tables[1],
      IF k >= 2
      THEN [tables[2] EXCEPT ![r.user] = update_cooldown(@, t, UploadCooldown)]
      ELSE tables[2]>>

\* create_chart returns the new row and update_cooldown is executed
\* (lines 270-298).
UploadCommit(p) ==
    /\ req[p].kind = "upload" /\ req[p].pc = "commit"
    /\ LET before == <<charts, accounts>>
           tables == db_acquire(before, UploadDb(req[p], before, now, 2), TRUE)
       IN  charts' = tables[1] /\ accounts' = tables[2]
    /\ req' = [req EXCEPT ![p].pc = "done", ![p].status = 200, ![p].dbwrites = @ + 1]
    /\ UNCHANGED <<leaderboards, s3, Config, nreq, faults>>

\* A statement of the database block fails, or create_chart returns nothing,
\* after k statements were executed (lines 294-302).
UploadCommitFail(p) ==
    /\ req[p].kind = "upload" /\ req[p].pc = "commit"
    /\ faults > 0
    /\ faults' = faults - 1
    /\ \E k \in 0..1 :
        LET before == <<charts, accounts>>
            tables == db_acquire(before, UploadDb(req[p], before, now, k), FALSE)
        IN  charts' = tables[1] /\ accounts' = tables[2]
    /\ req' = [req EXCEPT ![p] = Reject([@ EXCEPT !.dbfailed = TRUE], 500)]
    /\ UNCHANGED <<leaderboards, s3, Config, nreq>>

\* A variant of EditOpen that lets any authenticated user edit the chart.
EditOpenAnyUser(r, malformed, row) ==
    IF malformed THEN Reject(r, 422)
    ELSE IF LimitsExceeded(r.meta) THEN Reject(r, 400)
    ELSE LET r1 == [r EXCEPT !.dbreads = @ + 1] IN
         IF ~row.exists THEN Reject(r1, 404)
         ELSE [r1 EXCEPT !.old = row, !.pc = "chart"]

\* The checks of the edit handler before any file is looked at (edit.py lines
\* 47-78); row is what conn.fetchrow returns for the chart id.
EditOpen(r, malformed, row) ==
    IF malformed THEN Reject(r, 422)
    ELSE IF LimitsExceeded(r.meta) THEN Reject(r, 400)
    ELSE LET r1 == [r EXCEPT !.dbreads = @ + 1] IN
         IF ~row.exists THEN Reject(r1, 404)
         ELSE IF row.author # r.user THEN Reject([r1 EXCEPT !.old = row], 403)
         ELSE [r1 EXCEPT !.old = row, !.pc = "chart"]

\* PATCH /charts/{id}/edit: the request arrives, the row is read and the owner
\* checked (lines 42-81).
EditStart(p) ==
    /\ Free(p)
    /\ nreq < reqcap
    /\ \E user \in Users, id \in ChartIds, data \in DataInputs(EditMetas) :
        LET r == [IdleReq EXCEPT !.kind = "edit", !.user = user, !.id = id,
                                 !.meta = data.meta]
        IN  req' = [req EXCEPT ![p] = EditOpen(r, data.malformed, charts[id])]
    /\ nreq' = nreq + 1
    /\ UNCHANGED <<Stores, Config, faults>>

\* The inputs of one slot: a slot counts against the cap when it carries a
\* file or a flag; an absent file has no size.
SlotInput(p, slot, f, size, flagged) ==
    /\ size \in (IF f = NoFile THEN {0} ELSE Sizes(slot))
    /\ (f # NoFile \/ flagged) => req[p].touched < slotcap

\* The locals of a handler with the size of a slot's file noted.
Sized(r, slot, size) == [r EXCEPT !.size[slot] = size]

EditChart(p) ==
    /\ req[p].kind = "edit" /\ req[p].pc = "chart"
    /\ \E f \in ScriptFiles \cup {NoFile}, size \in {0} \cup Sizes("chart"), includes \in BOOLEAN :
        /\ SlotInput(p, "chart", f, size, includes)
        /\ req' = [req EXCEPT ![p] =
                     EditChartStep(Sized(@, "chart", size), f,
                                 size > MAX_FILE_SIZES["chart"], includes)]
    /\ UNCHANGED <<Stores, Config, nreq, faults>>

EditJacket(p) ==
    /\ req[p].kind = "edit" /\ req[p].pc = "jacket"
    /\ \E f \in JacketFiles \cup {NoFile}, size \in {0} \cup Sizes("jacket"), includes \in BOOLEAN :
        /\ SlotInput(p, "jacket", f, size, includes)
        /\ req' = [req EXCEPT ![p] =
                     EditJacketStep(Sized(@, "jacket", size), f,
                                 size > MAX_FILE_SIZES["jacket"], includes)]
    /\ UNCHANGED <<Stores, Config, nreq, faults>>

EditAudio(p) ==
    /\ req[p].kind = "edit" /\ req[p].pc = "audio"
    /\ \E f \in AudioFiles \cup {NoFile}, size \in {0} \cup Sizes("audio"), includes \in BOOLEAN :
        /\ SlotInput(p, "audio", f, size, includes)
        /\ req' = [req EXCEPT ![p] =
                     EditAudioStep(Sized(@, "audio", size), f,
                                 size > MAX_FILE_SIZES["audio"], includes)]
    /\ UNCHANGED <<Stores, Config, nreq, faults>>

EditPreview(p) ==
    /\ req[p].kind = "edit" /\ req[p].pc = "preview"
    /\ \E f \in PreviewFiles \cup {NoFile}, size \in {0} \cup Sizes("preview"),
          includes, delete \in BOOLEAN :
        /\ SlotInput(p, "preview", f, size, includes \/ delete)
        /\ req' = [req EXCEPT ![p] =
                     EditPreviewStep(Sized(@, "preview", size), f,
                                 size > MAX_FILE_SIZES["preview"], includes, delete)]
    /\ UNCHANGED <<Stores, Config, nreq, faults>>

EditBackground(p) ==
    /\ req[p].kind = "edit" /\ req[p].pc = "background"
    /\ \E f \in BackgroundFiles \cup {NoFile}, size \in {0} \cup Sizes("background"),
          includes, delete \in BOOLEAN :
        /\ SlotInput(p, "background", f, size, includes \/ delete)
        /\ req' = [req EXCEPT ![p] =
                     EditBackgroundStep(Sized(@, "background", size), f,
                                 size > MAX_FILE_SIZES["background"], includes, delete)]
    /\ UNCHANGED <<Stores, Config, nreq, faults>>

\* The diff, and the batch handed to asyncio.gather when there is anything
\* to delete or to put (lines 316-371).
EditBatch(p) ==
    /\ req[p].kind = "edit" /\ req[p].pc = "batch"
    /\ req' = [req EXCEPT ![p] =
                 IF DeletedHashes(@) # {} \/ @.s3_uploads # <<>>
                 THEN [@ EXCEPT !.tasks = EditTasks(req[p], s3), !.pc = "gather"]
                 ELSE [@ EXCEPT !.pc = "commit"]]
    /\ UNCHANGED <<Stores, Config, nreq, faults>>

\* One operation of the batch lands in the object store.
TaskOk(p, i) ==
    /\ CanResolve(req[p], i)
    /\ s3' = Apply(s3, req[p].tasks[i])
    /\ req' = [req EXCEPT ![p].tasks[i].st = "ok"]
    /\ UNCHANGED <<charts, leaderboards, accounts, Config, nreq, faults>>

\* One operation of the batch fails and leaves the object store as it is.
TaskFail(p, i) ==
    /\ CanResolve(req[p], i)
    /\ faults > 0
    /\ faults' = faults - 1
    /\ req' = [req EXCEPT ![p].tasks[i].st = "failed"]
    /\ UNCHANGED <<Stores, Config, nreq>>


\* A variant of GatherDone that collects the results of the batch without
\* raising on a failed operation.
GatherDoneAnyway(p) ==
    /\ req[p].pc = "gather"
    /\ Pending(req[p]) = {}
    /\ req' = [req EXCEPT ![p].pc = "commit"]
    /\ UNCHANGED <<Stores, Config, nreq, faults>>

\* A variant of GatherDone that raises on a failed put only.
GatherDoneTolerant(p) ==
    /\ req[p].pc = "gather"
    /\ Pending(req[p]) = {}
    /\ \A i \in Failed(req[p]) : req[p].tasks[i].op = "delete"
    /\ req' = [req EXCEPT ![p].pc = "commit"]
    /\ UNCHANGED <<Stores, Config, nreq, faults>>

\* await asyncio.gather(*tasks) returns: every operation succeeded.
GatherDone(p) ==
    /\ req[p].pc = "gather"
    /\ Pending(req[p]) = {} /\ Failed(req[p]) = {}
    /\ req' = [req EXCEPT ![p].pc = "commit"]
    /\ UNCHANGED <<Stores, Config, nreq, faults>>

\* await asyncio.gather(*tasks) raises as soon as one operation has failed:
\* the request ends with a server error, and the operations still in flight
\* never land.
GatherRaise(p) ==
    /\ req[p].pc = "gather"
    /\ Failed(req[p]) # {}
    /\ req' = [req EXCEPT ![p] =
                 Reject([@ EXCEPT !.tasks =
                            [i \in 1..Len(@) |->
                                IF @[i].st = "pending"
                                THEN [@[i] EXCEPT !.st = "aborted"] ELSE @[i]]],
                        500)]
    /\ UNCHANGED <<Stores, Config, nreq, faults>>

\* Building the call of update_file_hash reads an unassigned local
\* (lines 390-392): the request ends with a server error.
EditQueryRaise(p) ==
    /\ req[p].kind = "edit" /\ req[p].pc = "commit"
    /\ QueryRaises(req[p])
    /\ req' = [req EXCEPT ![p] = Reject(@, 500)]
    /\ UNCHANGED <<Stores, Config, nreq, faults>>

\* update_metadata, update_file_hash and delete_leaderboards (lines 404-410).
EditCommit(p) ==
    /\ req[p].kind = "edit" /\ req[p].pc = "commit"
    /\ ~QueryRaises(req[p])
    /\ LET before == <<charts, leaderboards>>
           tables == db_acquire(before,
                                EditDb(req[p], before, EditStatements(req[p])), TRUE)
       IN  charts' = tables[1] /\ leaderboards' = tables[2]
    /\ req' = [req EXCEPT ![p].pc = "done", ![p].status = 200, ![p].dbwrites = @ + 1]
    /\ UNCHANGED <<s3, accounts, Config, nreq, faults>>

\* A statement of the database block fails after k statements were executed.
EditCommitFail(p) ==
    /\ req[p].kind = "edit" /\ req[p].pc = "commit"
    /\ ~QueryRaises(req[p])
    /\ faults > 0
    /\ faults' = faults - 1
    /\ \E k \in 0..(EditStatements(req[p]) - 1) :
        LET before == <<charts, leaderboards>>
            tables == db_acquire(before, EditDb(req[p], before, k), FALSE)
        IN  charts' = tables[1] /\ leaderboards' = tables[2]
    /\ req' = [req EXCEPT ![p] = Reject([@ EXCEPT !.dbfailed = TRUE], 500)]
    /\ UNCHANGED <<s3, accounts, Config, nreq>>

(***************************************************************************)
(* The replay upload handler (leaderboards.py lines 30-145).                *)
(***************************************************************************)
Submitters == {"u1", "u2"}
ReplayFiles == {"rp_a", "rp_b", "junk"}
ConfigFiles == {"rc_a", "rc_b"}

\* speed, in tenths (int(speed * 10)), or <<>> when the field is not given.
Speeds == {<<>>, <<15>>}

\* ReplayData.model_validate_json(gzip.decompress(data)) returns.
ReplayValid(b) == b \in {"rp_a", "rp_b"}

\* replay.result.arcadeScore of a replay.
ArcadeScore(b) ==
    CASE b = "rp_a" -> 1000
      [] b = "rp_b" -> 1030
      [] OTHER -> 0

\* speed_multiplier, in units of 1/2000.
speed_multiplier(speed) ==
    IF speed = <<>> THEN 2000
    ELSE LET tier == speed[1] IN
         IF tier < 10 THEN 200 * tier - 800
         ELSE 2000 + 15 * (tier - 10)

\* int(score * speed_multiplier(speed)): truncation towards zero.
EffectiveScore(score, speed) ==
    LET n == score * speed_multiplier(speed) IN
    IF n >= 0 THEN n \div 2000 ELSE -((-n) \div 2000)

\* f"{chart.author}/{chart.id}/replays/{user_id}/{hash}".
ReplayKey(author, id, user_id, h) == <<author, id, "replays", user_id, h>>

\* The tasks handed to asyncio.gather by the replay handler: two puts and,
\* when a record is replaced, one delete_objects call for its two blobs.
ReplayTasks(r) ==
    <<[op |-> "put",
       key |-> ReplayKey(r.old.author, r.id, r.user, calculate_sha1(r.replay.data)),
       bytes |-> r.replay.data, st |-> "pending"],
      [op |-> "put",
       key |-> ReplayKey(r.old.author, r.id, r.user, calculate_sha1(r.replay.config)),
       bytes |-> r.replay.config, st |-> "pending"]>>
    \o (IF r.curr # NoRecord
        THEN <<[op |-> "delete_objects",
                key |-> <<ReplayKey(r.old.author, r.id, r.user, r.curr.replay_data_hash),
                          ReplayKey(r.old.author, r.id, r.user, r.curr.replay_config_hash)>>,
                bytes |-> "", st |-> "pending"]>>
        ELSE <<>>)

\* A variant of ReplayOpen that keeps the previous record only when its
\* score is strictly greater.
ReplayOpenStrict(r0, row, curr) ==
    IF ~ReplayValid(r0.replay.data) THEN Reject(r0, 500)
    ELSE IF ~row.exists THEN Reject([r0 EXCEPT !.dbreads = @ + 1], 500)
    ELSE LET r == [r0 EXCEPT !.old = row, !.curr = curr, !.dbreads = @ + 2] IN
         IF /\ curr # NoRecord
            /\ EffectiveScore(curr.arcade_score, curr.speed)
                   > EffectiveScore(ArcadeScore(r.replay.data), r.replay.speed)
         THEN [r EXCEPT !.pc = "done", !.status = 200, !.result = "unchanged"]
         ELSE [r EXCEPT !.dbwrites = IF curr # NoRecord THEN 1 ELSE 0,
                        !.tasks = ReplayTasks(r),
                        !.pc = "gather"]

\* The handler from the reading of the files to the batch: row and curr are
\* what the two fetchrow calls return.
ReplayOpen(r0, row, curr) ==
    IF ~ReplayValid(r0.replay.data) THEN Reject(r0, 500)
    ELSE IF ~row.exists THEN Reject([r0 EXCEPT !.dbreads = @ + 1], 500)
    ELSE LET r == [r0 EXCEPT !.old = row, !.curr = curr, !.dbreads = @ + 2] IN
         IF /\ curr # NoRecord
            /\ EffectiveScore(curr.arcade_score, curr.speed)
                   >= EffectiveScore(ArcadeScore(r.replay.data), r.replay.speed)
         THEN [r EXCEPT !.pc = "done", !.status = 200, !.result = "unchanged"]
         ELSE [r EXCEPT !.dbwrites = IF curr # NoRecord THEN 1 ELSE 0,
                        !.tasks = ReplayTasks(r),
                        !.pc = "gather"]

\* The tables after delete_leaderboard_record(curr_record.id) (line 91).
ReplayDbDelete(r, tables) ==
    <<tables[1], {l \in tables[2] : l.id # r.curr.id}>>

\* The LeaderboardRecord of lines 125-141; its serial id is the number of the
\* request.
ReplayRecord(r) ==
    [id |-> r.seq, chart_id |-> r.id, submitter |-> r.user,
     replay_data_hash |-> calculate_sha1(r.replay.data),
     replay_config_hash |-> calculate_sha1(r.replay.config),
     arcade_score |-> ArcadeScore(r.replay.data), speed |-> r.replay.speed]

\* get_user_leaderboard_record_for_chart: the rows fetchrow may return.
UserRecords(lbs, id, user_id) ==
    LET rows == {l \in lbs : l.chart_id = id /\ l.submitter = user_id} IN
    IF rows = {} THEN {NoRecord} ELSE rows

\* A replay upload from its start to the batch (lines 57-118).
ReplayStart(p) ==
    /\ Free(p)
    /\ nreq < reqcap
    /\ \E user_id \in Submitters, id \in ChartIds, data \in ReplayFiles,
          config \in ConfigFiles, speed \in Speeds :
        \E curr \in UserRecords(leaderboards, id, user_id) :
            LET r == ReplayOpen([IdleReq EXCEPT
                                    !.kind = "replay", !.pc = "open",
                                    !.user = user_id, !.id = id,
                                    !.seq = nreq + 1,
                                    !.replay = [data |-> data, config |-> config,
                                                speed |-> speed]],
                                charts[id], curr)
                before == <<charts, leaderboards>>
            IN  /\ req' = [req EXCEPT ![p] = r]
                /\ leaderboards' =
                       IF r.pc = "gather" /\ curr # NoRecord
                       THEN db_acquire(before, ReplayDbDelete(r, before), TRUE)[2]
                       ELSE leaderboards
    /\ nreq' = nreq + 1
    /\ UNCHANGED <<charts, s3, accounts, Config, faults>>

\* create_leaderboard_record (lines 122-145).
ReplayCommit(p) ==
    /\ req[p].kind = "replay" /\ req[p].pc = "commit"
    /\ leaderboards' = leaderboards \cup {ReplayRecord(req[p])}
    /\ req' = [req EXCEPT ![p].pc = "done", ![p].status = 200,
                          ![p].result = "ok", ![p].dbwrites = @ + 1]
    /\ UNCHANGED <<charts, s3, accounts, Config, nreq, faults>>

\* The insert fails.
ReplayCommitFail(p) ==
    /\ req[p].kind = "replay" /\ req[p].pc = "commit"
    /\ faults > 0
    /\ faults' = faults - 1
    /\ req' = [req EXCEPT ![p] = Reject([@ EXCEPT !.dbfailed = TRUE], 500)]
    /\ UNCHANGED <<Stores, Config, nreq>>

(***************************************************************************)
(* The record deletion handler (leaderboards.py lines 249-289).             *)
(***************************************************************************)

\* get_leaderboard_record_by_id: the row of the chart with the given id, and
\* whether the session's user submitted it.
RecordById(lbs, id, record_id, sonolus_id) ==
    LET rows == {l \in lbs : l.id = record_id /\ l.chart_id = id} IN
    IF rows = {} THEN [found |-> FALSE, row |-> NoRecord, owner |-> FALSE]
    ELSE LET l == CHOOSE x \in rows : TRUE IN
         [found |-> TRUE, row |-> l, owner |-> l.submitter = sonolus_id]

\* A variant of DeleteOpen that lets any authenticated user delete the
\* record.
DeleteOpenAnyUser(r0, leaderboard_record, user) ==
    LET r == [r0 EXCEPT !.dbreads = @ + 1] IN
    IF ~leaderboard_record.found THEN Reject(r, 404)
    ELSE [r EXCEPT !.curr = leaderboard_record.row, !.dbwrites = 1,
                   !.pc = "done", !.status = 200]

\* The database block of delete_record (lines 263-275): user is the
\* account row of the session's user.
DeleteOpen(r0, leaderboard_record, user) ==
    LET r == [r0 EXCEPT !.dbreads = @ + 1] IN
    IF ~leaderboard_record.found THEN Reject(r, 404)
    ELSE IF ~(leaderboard_record.owner \/ user.mod \/ user.admin)
         THEN Reject([r EXCEPT !.curr = leaderboard_record.row], 403)
    ELSE [r EXCEPT !.curr = leaderboard_record.row, !.dbwrites = 1,
                   !.pc = "done", !.status = 200]

\* The tables after delete_leaderboard_record(record_id) (line 275).
DeleteDb(r, tables) ==
    <<tables[1], {l \in tables[2] : l.id # r.record_id}>>

\* DELETE /charts/{id}/leaderboards/{record_id}/ (lines 249-289).
DeleteRecord(p) ==
    /\ Free(p)
    /\ nreq < reqcap
    /\ \E sonolus_id \in Accounts, id \in ChartIds, record_id \in 1..reqcap :
        LET r == DeleteOpen([IdleReq EXCEPT
                                !.kind = "delete_record", !.pc = "open",
                                !.user = sonolus_id, !.id = id,
                                !.seq = nreq + 1, !.record_id = record_id],
                            RecordById(leaderboards, id, record_id, sonolus_id),
                            accounts[sonolus_id])
            before == <<charts, leaderboards>>
        IN  /\ req' = [req EXCEPT ![p] = r]
            /\ leaderboards' =
                   IF r.status = 200
                   THEN db_acquire(before, DeleteDb(r, before), TRUE)[2]
                   ELSE leaderboards
    /\ nreq' = nreq + 1
    /\ UNCHANGED <<charts, s3, accounts, Config, faults>>

(***************************************************************************)
(* Specifications.                                                         *)
(***************************************************************************)
InitStores ==
    /\ charts = [i \in ChartIds |-> AbsentRow]
    /\ leaderboards = {}
    /\ s3 = [k \in {} |-> ""]
    /\ req = [p \in Procs |-> IdleReq]
    /\ nreq = 0
    /\ accounts = InitAccounts /\ now = 0

\* The steps of an upload.
UploadStep(p) ==
    \/ UploadStart(p) \/ UploadJacket(p) \/ UploadChart(p) \/ UploadAudio(p)
    \/ UploadPreview(p) \/ UploadBackground(p) \/ UploadBatch(p) \/ UploadCommit(p)

\* The steps of an edit.
EditStep(p) ==
    \/ EditStart(p) \/ EditChart(p) \/ EditJacket(p) \/ EditAudio(p)
    \/ EditPreview(p) \/ EditBackground(p) \/ EditBatch(p)
    \/ EditQueryRaise(p) \/ EditCommit(p)

\* The steps of a batch whose operations all succeed.
BatchStep(p) ==
    \/ (\E i \in 1..Len(req[p].tasks) : TaskOk(p, i))
    \/ GatherDone(p)

\* The steps in which a store operation fails.
FaultStep(p) ==
    \/ (\E i \in 1..Len(req[p].tasks) : TaskFail(p, i))
    \/ GatherRaise(p) \/ UploadCommitFail(p) \/ EditCommitFail(p)

SeqProcs == {p \in Procs : \A q \in Procs : p <= q}

\* Requests one at a time; store operations may fail.
Init ==
    /\ InitStores /\ debug = FALSE
    /\ faults = MaxFaults /\ slotcap = MaxEditSlots /\ reqcap = MaxRequests
Next == \E p \in SeqProcs : UploadStep(p) \/ EditStep(p) \/ BatchStep(p) \/ FaultStep(p)
Spec == Init /\ [][Next]_vars

\* Requests one at a time; every store operation succeeds.
InitOK ==
    /\ InitStores /\ debug = FALSE
    /\ faults = 0 /\ slotcap = MaxEditSlots /\ reqcap = MaxRequests
NextOK == \E p \in SeqProcs : UploadStep(p) \/ EditStep(p) \/ BatchStep(p)
SpecOK == InitOK /\ [][NextOK]_vars

\* Requests one at a time, with app.debug off or on; every store operation
\* succeeds and an edit touches one slot.
InitDebug ==
    /\ InitStores /\ debug \in BOOLEAN
    /\ faults = 0 /\ slotcap = MaxEditSlotsDebug /\ reqcap = MaxRequests
NextDebug == \E p \in SeqProcs : UploadStep(p) \/ EditStep(p) \/ BatchStep(p)
SpecDebug == InitDebug /\ [][NextDebug]_vars

\* The handler locals of an upload by u1 of a JPEG jacket, a SUS script, an
\* audio file and a preview, at its commit.
SeedUpload ==
    UploadBackgroundStep(
        UploadPreviewStep(
            UploadAudioStep(
                UploadChartStep(
                    UploadJacketStep(
                        UploadOpen(
                            [IdleReq EXCEPT
                                !.kind = "upload", !.user = "u1",
                                !.id = CHOOSE i \in ChartIds : TRUE,
                                !.meta = AtLimit(MAX_RATINGS.max),
                                !.attached = [k \in FileSlots |-> k # "background"],
                                !.size = [k \in FileSlots |->
                                            IF k # "background" THEN MAX_FILE_SIZES[k]
                                            ELSE 0]],
                            FALSE, <<>>, FALSE, 0),
                        "jpg_raw"),
                    "sus_ok", FALSE),
                "mp3_a"),
            "mp3_b"),
        NoFile)

RECURSIVE ApplyAll(_, _)
ApplyAll(store, ts) ==
    IF ts = <<>> THEN store ELSE ApplyAll(Apply(store, Head(ts)), Tail(ts))

\* Concurrent edits of one chart, from the state that upload leaves; every
\* store operation succeeds.
InitConc ==
    /\ charts = [i \in ChartIds |-> IF i = SeedUpload.id THEN UploadRow(SeedUpload)
                                    ELSE AbsentRow]
    /\ leaderboards = {}
    /\ s3 = ApplyAll([k \in {} |-> ""], UploadTasks(SeedUpload.s3_uploads, {}))
    /\ req = [p \in Procs |-> IdleReq]
    /\ nreq = 0
    /\ accounts = InitAccounts /\ now = 0
    /\ debug = FALSE
    /\ faults = 0 /\ slotcap = MaxEditSlotsConc /\ reqcap = MaxRequests
NextConc == \E p \in Procs : EditStep(p) \/ BatchStep(p)
SpecConc == InitConc /\ [][NextConc]_vars

\* The steps of a replay upload.
ReplayStep(p) == ReplayStart(p) \/ ReplayCommit(p)

\* The steps in which a store operation of a replay upload fails.
ReplayFaultStep(p) ==
    \/ (\E i \in 1..Len(req[p].tasks) : TaskFail(p, i))
    \/ GatherRaise(p) \/ ReplayCommitFail(p)

\* Concurrent replay uploads and record deletions for the chart that upload
\* leaves; store operations may fail.
InitReplay ==
    /\ charts = [i \in ChartIds |-> IF i = SeedUpload.id THEN UploadRow(SeedUpload)
                                    ELSE AbsentRow]
    /\ leaderboards = {}
    /\ s3 = ApplyAll([k \in {} |-> ""], UploadTasks(SeedUpload.s3_uploads, {}))
    /\ req = [p \in Procs |-> IdleReq]
    /\ nreq = 0
    /\ accounts = InitAccounts /\ now = 0
    /\ debug = FALSE
    /\ faults = MaxFaults /\ slotcap = 0 /\ reqcap = MaxReplays
NextReplay ==
    \E p \in Procs :
        ReplayStep(p) \/ BatchStep(p) \/ ReplayFaultStep(p) \/ DeleteRecord(p)
SpecReplay == InitReplay /\ [][NextReplay]_vars

\* The handler locals of a replay upload by u2 for the chart of SeedUpload,
\* at its commit.
SeedReplay ==
    ReplayOpen([IdleReq EXCEPT
                   !.kind = "replay", !.pc = "open", !.user = "u2",
                   !.id = SeedUpload.id, !.seq = 1,
                   !.replay = [data |-> "rp_a", config |-> "rc_a", speed |-> <<>>]],
               UploadRow(SeedUpload), NoRecord)

\* Edits, one at a time, of a chart that has a leaderboard record with its
\* two replay blobs; every store operation succeeds.
InitRanked ==
    /\ charts = [i \in ChartIds |-> IF i = SeedUpload.id THEN UploadRow(SeedUpload)
                                    ELSE AbsentRow]
    /\ leaderboards = {ReplayRecord(SeedReplay)}
    /\ s3 = ApplyAll([k \in {} |-> ""],
                     UploadTasks(SeedUpload.s3_uploads, {}) \o SeedReplay.tasks)
    /\ req = [p \in Procs |-> IdleReq]
    /\ nreq = 0
    /\ accounts = InitAccounts /\ now = 0
    /\ debug = FALSE
    /\ faults = 0 /\ slotcap = MaxEditSlots /\ reqcap = MaxRequests
NextRanked == \E p \in SeqProcs : EditStep(p) \/ BatchStep(p)
SpecRanked == InitRanked /\ [][NextRanked]_vars

\* A minute passes.
Tick ==
    /\ now < MaxClock
    /\ now' = now + 1
    /\ UNCHANGED <<Stores, req, debug, slotcap, reqcap, nreq, faults>>

\* Uploads one at a time while time passes, with app.debug off or on, by a
\* user whose cooldown, if any, ends a minute from the start; the database
\* block may fail.
InitCooldown ==
    /\ charts = [i \in ChartIds |-> AbsentRow]
    /\ leaderboards = {}
    /\ s3 = [k \in {} |-> ""]
    /\ req = [p \in Procs |-> IdleReq]
    /\ nreq = 0
    /\ \E cooldown \in {<<>>, <<UploadCooldown>>} :
        accounts = [InitAccounts EXCEPT !["u1"].chart_upload_cooldown = cooldown]
    /\ now = 0
    /\ debug \in BOOLEAN
    /\ faults = MaxFaults /\ slotcap = 0 /\ reqcap = MaxRequests
NextCooldown ==
    \/ \E p \in SeqProcs : UploadStep(p) \/ BatchStep(p) \/ UploadCommitFail(p)
    \/ Tick
SpecCooldown == InitCooldown /\ [][NextCooldown]_vars


(***************************************************************************)
(* Properties.                                                             *)
(***************************************************************************)
Quiescent == \A p \in Procs : Free(p)

\* Every non-empty hash of the chart's row has its blob.
RowBacked(id) ==
    charts[id].exists =>
        \A k \in HashKeys :
            charts[id].hashes[k] # None =>
                AssetKey(charts[id].author, id, charts[id].hashes[k]) \in DOMAIN s3

IsEdit(p) == req[p].kind = "edit"
Diffed(p) == IsEdit(p) /\ (req[p].tasks # <<>> \/ req[p].pc = "commit" \/ req[p].status \in {200, 500})

\* The asset operations of a request's batch, by kind and state.
AssetOps(r, op, sts) ==
    {i \in 1..Len(r.tasks) :
        r.tasks[i].op = op /\ Len(r.tasks[i].key) = 3 /\ r.tasks[i].st \in sts}
OpHashes(r, op, sts) == {r.tasks[i].key[3] : i \in AssetOps(r, op, sts)}
AnyState == {"pending", "ok", "failed", "aborted"}

\* The local hash variable that holds the new hash of a column.
VarOf(k) ==
    CASE k = "jacket_file_hash" -> "jacket_hash"
      [] k = "music_file_hash" -> "audio_hash"
      [] k = "chart_file_hash" -> "chart_hash"
      [] k = "background_v1_file_hash" -> "v1_hash"
      [] k = "background_v3_file_hash" -> "v3_hash"
      [] k = "preview_file_hash" -> "preview_hash"
      [] OTHER -> "background_hash"

\* The change set of an edit, per column.
Replaced(r, k) == VarOf(k) \in QueryReads(r)
Removed(r, k) ==
    \/ k = "preview_file_hash" /\ r.data["delete_preview"]
    \/ k = "background_file_hash" /\ r.data["delete_background"]
SlotUnchanged(r, k) == ~Replaced(r, k) /\ ~Removed(r, k)

\* The asset set the edit commits.
ResultHashes(r) == {update_file_hash(r.old, r).hashes[k] : k \in HashKeys} \ {None}

\* C1: after any sequence of uploads and edits run one at a time, with every
\* store operation succeeding, every non-empty slot hash of every chart has
\* its blob at {owner}/{chart}/{hash} (stated for requests that end without a
\* server error).
C1_SlotsBacked ==
    (Quiescent /\ \A p \in Procs : req[p].status # 500)
    => \A id \in ChartIds : RowBacked(id)

\* C2: in an edit no delete of an old asset blob has landed in the object
\* store before the metadata commit of that edit has succeeded.
C2_NoDeleteBeforeCommit ==
    \A p \in Procs :
        (IsEdit(p) /\ OpHashes(req[p], "delete", {"ok"}) \ {None} # {})
        => req[p].dbwrites > 0

\* C3: the hashes an edit deletes are disjoint from the hashes referenced by
\* the asset set that results from the edit.
C3_DeletesDisjointFromResult ==
    \A p \in Procs :
        (Diffed(p) /\ ~QueryRaises(req[p])) =>
            OpHashes(req[p], "delete", AnyState) \cap ResultHashes(req[p]) = {}

\* C4: after two concurrent edits of one chart that read the same prior asset
\* set have both completed, every non-empty slot hash committed has its blob
\* (stated for edits neither of which puts a hash it also deletes, so that
\* only the interleaving of the two requests is in question).
C4_ConcurrentEditsBacked ==
    (/\ \A p \in Procs :
            /\ IsEdit(p) /\ req[p].pc = "done" /\ req[p].status = 200
            /\ OpHashes(req[p], "delete", AnyState) \cap OpHashes(req[p], "put", AnyState) = {}
     /\ \A p, q \in Procs : req[p].old = req[q].old /\ req[p].id = req[q].id)
    => \A id \in ChartIds : RowBacked(id)

\* keptHashes of the claim: the hashes of the slots the change set leaves
\* unchanged, and of the slots whose replacement hash equals their old hash.
ClaimKeptHashes(r) ==
    {r.old.hashes[k] :
        k \in {c \in HashKeys :
                 \/ SlotUnchanged(r, c)
                 \/ Replaced(r, c) /\ r.h[VarOf(c)] = r.old.hashes[c]}}

\* C5: the delete set of an edit has an empty intersection with keptHashes.
C5_DeletesDisjointFromKept ==
    \A p \in Procs :
        Diffed(p) => DeletedHashes(req[p]) \cap ClaimKeptHashes(req[p]) = {}

\* The columns an edit resubmits with the bytes they already hold.
NoOpColumns(r) ==
    {k \in HashKeys : Replaced(r, k) /\ r.h[VarOf(k)] = r.old.hashes[k]}

\* C6: an edit that resubmits a slot with its stored bytes deletes no blob and
\* creates no blob on account of that slot, and the committed hash of the slot
\* is the old one.
C6_NoOpEdit ==
    \A p \in Procs :
        (IsEdit(p) /\ req[p].pc = "done" /\ req[p].status = 200) =>
            \A k \in NoOpColumns(req[p]) :
                /\ req[p].old.hashes[k] \notin OpHashes(req[p], "delete", AnyState)
                /\ req[p].old.hashes[k] \in OpHashes(req[p], "put", AnyState) =>
                       \E c \in HashKeys \ NoOpColumns(req[p]) :
                           Replaced(req[p], c) /\ req[p].h[VarOf(c)] = req[p].old.hashes[k]
                /\ charts[req[p].id].hashes[k] = req[p].old.hashes[k]


\* What a request that failed has left in the relational store: nothing.
NothingWritten(p) ==
    /\ req[p].dbwrites = 0
    /\ req[p].kind = "upload" => ~charts[req[p].id].exists
    /\ req[p].kind = "edit" => charts[req[p].id] = req[p].old

\* C7: the metadata commit is issued only after every put of the batch has
\* succeeded; when a put fails, the request fails and writes no hash pointer.
C7_CommitAfterCreates ==
    \A p \in Procs :
        /\ (req[p].pc = "commit" \/ req[p].dbwrites > 0) =>
               \A i \in AssetOps(req[p], "put", AnyState) : req[p].tasks[i].st = "ok"
        /\ AssetOps(req[p], "put", {"failed"}) # {} =>
               /\ NothingWritten(p)
               /\ req[p].pc = "done" => req[p].status = 500

\* A request has ended after one of its puts failed and another had landed.
C7_Witness ==
    \E p \in Procs :
        /\ req[p].pc = "done"
        /\ AssetOps(req[p], "put", {"failed"}) # {}
        /\ AssetOps(req[p], "put", {"ok"}) # {}

\* An edit has ended; a delete of its batch failed and every put succeeded.
DeleteFailedAlone(p) ==
    /\ IsEdit(p) /\ req[p].pc = "done"
    /\ AssetOps(req[p], "delete", {"failed"}) # {}
    /\ AssetOps(req[p], "put", {"ok"}) = AssetOps(req[p], "put", AnyState)

\* C8, as claimed: when a delete of the batch fails while all puts succeed,
\* the edit still commits the new hashes and reports success.
C8_DeleteFailureTolerated ==
    \A p \in Procs :
        DeleteFailedAlone(p) => (req[p].status = 200 /\ req[p].dbwrites > 0)

\* C8, amended: when a delete of the batch fails, the edit ends with a server
\* error and commits nothing, whether or not its puts succeeded.
C8_DeleteFailureFailsRequest ==
    \A p \in Procs :
        (IsEdit(p) /\ AssetOps(req[p], "delete", {"failed"}) # {}) =>
            /\ NothingWritten(p)
            /\ req[p].pc # "commit"
            /\ req[p].pc = "done" => req[p].status = 500

\* An edit has ended after a delete failed although a put of its batch landed.
C8_Witness ==
    \E p \in Procs : DeleteFailedAlone(p) /\ AssetOps(req[p], "put", {"ok"}) # {}

\* C9: while the files of a request are validated and converted, and after a
\* request was rejected, the request has issued no object-store operation and
\* no database write.
C9_ValidationBeforeMutation ==
    \A p \in Procs :
        (\/ req[p].pc \in {"chart", "jacket", "audio", "preview", "background", "batch"}
         \/ req[p].pc = "done" /\ req[p].status \in {400, 403, 404, 413})
        => (req[p].tasks = <<>> /\ req[p].dbwrites = 0)

\* A request was rejected at a later file after an earlier one was processed.
C9_Witness ==
    \E p \in Procs :
        /\ req[p].pc = "done" /\ req[p].status = 400
        /\ req[p].s3_uploads # <<>>
        /\ req[p].tasks = <<>>

\* The (file attached, includes, delete) combination of a slot of an edit.
DeleteFlag(r, slot) ==
    CASE slot = "preview" -> r.data["delete_preview"]
      [] slot = "background" -> r.data["delete_background"]
      [] OTHER -> FALSE
IncludesFlag(r, slot) ==
    CASE slot = "chart" -> r.data["includes_chart"]
      [] slot = "jacket" -> r.data["includes_jacket"]
      [] slot = "audio" -> r.data["includes_audio"]
      [] slot = "preview" -> r.data["includes_preview"]
      [] OTHER -> r.data["includes_background"]
ComboAccepted(r, slot) ==
    LET F == r.attached[slot]
        I == IncludesFlag(r, slot)
        D == DeleteFlag(r, slot)
    IN  \/ F /\ I /\ ~D
        \/ ~F /\ ~I /\ D
        \/ ~F /\ ~I /\ ~D

\* C10: an edit with a slot whose (file, includes, delete) combination is not
\* (file + includes), (delete only) or (nothing) is rejected before any
\* object-store operation or database write.
C10_FlagConsistency ==
    \A p \in Procs :
        (IsEdit(p) /\ \E slot \in FileSlots : ~ComboAccepted(req[p], slot)) =>
            /\ req[p].pc = "done" /\ req[p].status \in {400, 413}
            /\ req[p].tasks = <<>> /\ req[p].dbwrites = 0

\* An edit with a preview file, includes_preview and delete_preview was
\* rejected.
C10_Witness ==
    \E p \in Procs :
        /\ IsEdit(p) /\ req[p].pc = "done" /\ req[p].status = 400
        /\ req[p].attached["preview"]
        /\ req[p].data["includes_preview"] /\ req[p].data["delete_preview"]

\* An edit by a user who is not the author of the chart it names.
NotOwner(p) ==
    IsEdit(p) /\ req[p].old.exists /\ req[p].old.author # req[p].user

\* C11: an edit by a user who is not the chart's author is rejected with 403
\* and issues no object-store operation and no database write, and every edit
\* that has issued one is a request of the chart's author.
C11_OwnerOnly ==
    \A p \in Procs :
        /\ NotOwner(p) =>
               /\ req[p].pc = "done" /\ req[p].status = 403
               /\ req[p].tasks = <<>> /\ req[p].dbwrites = 0
               /\ charts[req[p].id] = req[p].old
        /\ (IsEdit(p) /\ (req[p].tasks # <<>> \/ req[p].dbwrites > 0)) =>
               req[p].user = charts[req[p].id].author

\* An edit of an existing chart by another user was rejected.
C11_Witness ==
    \E p \in Procs :
        /\ NotOwner(p) /\ req[p].status = 403
        /\ \E k \in HashKeys : charts[req[p].id].hashes[k] # None

\* C12: a request whose audio file exceeds the maximum size is rejected
\* without any object-store call and without any database call, read or write.
C12_OversizeAudioNoIO ==
    \A p \in Procs :
        req[p].size["audio"] > MAX_FILE_SIZES["audio"] =>
            /\ req[p].pc = "done" /\ req[p].status \in {400, 413, 422}
            /\ req[p].tasks = <<>>
            /\ req[p].dbwrites = 0 /\ req[p].dbreads = 0

\* No file check, variant generation, detection, conversion or hashing has
\* been done for any asset of the request.
NoPipelineWork(r) ==
    /\ \A v \in HashVars : r.h[v] = Unbound
    /\ r.s3_uploads = <<>> /\ r.script = NoFile /\ r.tasks = <<>>

TooLarge(r) == {k \in FileSlots : r.attached[k] /\ r.size[k] > MAX_FILE_SIZES[k]}

\* C13: an upload with an attached file larger than its per-kind maximum is
\* rejected before any pipeline work, with 413 when its metadata is valid, and
\* an upload whose files are all at most their maximum is not rejected for size.
C13_UploadSizeLimits ==
    \A p \in Procs :
        req[p].kind = "upload" =>
            /\ TooLarge(req[p]) # {} =>
                   /\ req[p].pc = "done" /\ NoPipelineWork(req[p])
                   /\ \/ req[p].status = 413
                      \/ req[p].status = 400 /\ req[p].at = "idle"
                      \/ req[p].status = 422
            /\ TooLarge(req[p]) = {} => req[p].status # 413

\* An upload with an oversize preview, every other file at its maximum, was
\* rejected with 413.
C13_Witness ==
    \E p \in Procs :
        /\ req[p].kind = "upload" /\ req[p].status = 413
        /\ TooLarge(req[p]) = {"preview"}
        /\ \A k \in {"jacket", "chart", "audio"} : req[p].size[k] = MAX_FILE_SIZES[k]

\* Metadata over a limit: title, artists or author longer than 50, description
\* longer than 1000, more than 3 tags, a tag longer than 10, or a rating
\* outside [-999, 999].
OverALimit(m) ==
    \/ m.title > 50 \/ m.artists > 50 \/ m.author > 50
    \/ m.description > 1000
    \/ Len(m.tags) > 3
    \/ \E i \in 1..Len(m.tags) : m.tags[i] > 10
    \/ \E i \in 1..Len(m.rating) : m.rating[i] < -999 \/ m.rating[i] > 999

\* C14: a request whose metadata is over a limit is rejected with 400 at once,
\* a request whose data is malformed with 422, both without any object-store
\* operation or database write; metadata at its limits is not rejected.
C14_MetadataLimits ==
    \A p \in Procs :
        /\ (req[p].kind # "none" /\ OverALimit(req[p].meta)) =>
               /\ req[p].pc = "done" /\ req[p].status = 400 /\ req[p].at = "idle"
               /\ req[p].tasks = <<>> /\ req[p].s3_uploads = <<>>
               /\ req[p].dbwrites = 0
        /\ req[p].status = 422 => (req[p].tasks = <<>> /\ req[p].dbwrites = 0)
        /\ (req[p].kind # "none" /\ ~OverALimit(req[p].meta)) =>
               ~(req[p].status = 400 /\ req[p].at = "idle")

\* An edit of an existing chart by its author with four tags was rejected.
C14_Witness ==
    \E p \in Procs :
        /\ IsEdit(p) /\ req[p].status = 400 /\ req[p].at = "idle"
        /\ Len(req[p].meta.tags) > MAX_TEXT_SIZES.tags_count
        /\ charts[req[p].id].exists /\ charts[req[p].id].author = req[p].user

\* The request has built its batch, or has found that it needs none.
Batched(p) ==
    req[p].tasks # <<>> \/ req[p].pc = "commit" \/ req[p].status \in {200, 500}

\* The hash a request gives to a column (None: the request does not set it).
SlotHash(r, k) ==
    IF r.kind = "upload" THEN UploadRow(r).hashes[k]
    ELSE IF Replaced(r, k) THEN r.h[VarOf(k)] ELSE None

\* C15: a request issues one put per distinct hash of its uploads, and after
\* it succeeded two columns it set to the same hash point at the one blob
\* stored at {owner}/{chart}/{hash}.
C15_OnePutPerHash ==
    \A p \in Procs :
        /\ \A i, j \in AssetOps(req[p], "put", AnyState) :
               req[p].tasks[i].key = req[p].tasks[j].key => i = j
        /\ Batched(p) =>
               OpHashes(req[p], "put", AnyState)
                   = {req[p].s3_uploads[i].hash : i \in 1..Len(req[p].s3_uploads)}
        /\ (req[p].pc = "done" /\ req[p].status = 200) =>
               \A c, d \in HashKeys :
                   (c # d /\ SlotHash(req[p], c) # None
                          /\ SlotHash(req[p], c) = SlotHash(req[p], d)) =>
                       LET key == AssetKey(req[p].user, req[p].id, SlotHash(req[p], c)) IN
                       /\ charts[req[p].id].hashes[c] = SlotHash(req[p], c)
                       /\ charts[req[p].id].hashes[d] = SlotHash(req[p], c)
                       /\ key \in DOMAIN s3
                       /\ calculate_sha1(s3[key]) = SlotHash(req[p], c)

\* An edit whose change set is the jacket alone, replaced with an image whose
\* normalized hash differs from the old jacket hash.
JacketReplaced(p) ==
    /\ Diffed(p)
    /\ req[p].attached["jacket"] /\ req[p].data["includes_jacket"]
    /\ req[p].touched = 1
    /\ req[p].h["jacket_hash"] # req[p].old.hashes["jacket_file_hash"]

JacketGroup == {"jacket_file_hash", "background_v1_file_hash", "background_v3_file_hash"}

\* C16: an edit that replaces the jacket (Hj2 # Hj1) deletes exactly the old
\* jacket hash and the two old variant hashes minus the hashes the unchanged
\* slots use, and creates exactly the new jacket hash and the two new variant
\* hashes.
C16_JacketReplacement ==
    \A p \in Procs :
        JacketReplaced(p) =>
            /\ OpHashes(req[p], "delete", AnyState)
                   = {req[p].old.hashes[k] : k \in JacketGroup}
                     \ {req[p].old.hashes[k] : k \in HashKeys \ JacketGroup}
            /\ OpHashes(req[p], "put", AnyState)
                   = {req[p].h["jacket_hash"], req[p].h["v1_hash"], req[p].h["v3_hash"]}

\* A jacket replacement has succeeded on a chart whose background is the same
\* image as the old jacket.
C16_Witness ==
    \E p \in Procs :
        /\ JacketReplaced(p) /\ req[p].pc = "done" /\ req[p].status = 200
        /\ req[p].old.hashes["background_file_hash"] = req[p].old.hashes["jacket_file_hash"]

\* The column of an optional slot.
OptionalColumn(slot) ==
    IF slot = "preview" THEN "preview_file_hash" ELSE "background_file_hash"

\* An edit that removes an optional slot whose hash no other slot references.
RemovesSole(p, slot) ==
    LET k == OptionalColumn(slot) IN
    /\ Diffed(p)
    /\ DeleteFlag(req[p], slot) /\ ~req[p].attached[slot]
    /\ req[p].old.hashes[k] # None
    /\ \A c \in HashKeys \ {k} : req[p].old.hashes[c] # req[p].old.hashes[k]

\* C17: an edit with delete_background (delete_preview) and no file, on a
\* chart whose background (preview) hash no other slot references, issues one
\* delete of {owner}/{chart}/{hash} and leaves the column empty after the
\* commit.
C17_RemoveOptional ==
    \A p \in Procs : \A slot \in {"preview", "background"} :
        RemovesSole(p, slot) =>
            LET k == OptionalColumn(slot)
                key == AssetKey(req[p].user, req[p].id, req[p].old.hashes[k])
            IN  /\ Cardinality({i \in AssetOps(req[p], "delete", AnyState) :
                                   req[p].tasks[i].key = key}) = 1
                /\ (req[p].pc = "done" /\ req[p].status = 200) =>
                       charts[req[p].id].hashes[k] = None

\* An edit with delete_background has succeeded on a chart with a background.
C17_Witness ==
    \E p \in Procs :
        /\ RemovesSole(p, "background")
        /\ req[p].pc = "done" /\ req[p].status = 200

\* What each flow makes of a script: the stored bytes, or "error".
UploadOutcome(b, dbg) == IF DetectValid(b) THEN ConvertUpload(b, dbg) ELSE "error"
EditOutcome(b) == IF DetectValid(b) THEN ConvertEdit(b) ELSE "error"

\* The request has run its script through detection and conversion.
Converted(p) ==
    /\ req[p].script # NoFile
    /\ IsEdit(p) =>
           /\ req[p].data["includes_chart"]
           /\ req[p].size["chart"] <= MAX_FILE_SIZES["chart"]

\* C18: a script that a flow has processed is rejected by that flow exactly
\* when the other flow rejects it under the same debug setting, and otherwise
\* is stored with the hash of the bytes the other flow makes of it.
C18_ConversionPathIndependent ==
    \A p \in Procs :
        Converted(p) =>
            LET other == IF IsEdit(p) THEN UploadOutcome(req[p].script, debug)
                         ELSE EditOutcome(req[p].script)
            IN  IF other = "error" THEN req[p].h["chart_hash"] = Unbound
                ELSE req[p].h["chart_hash"] = calculate_sha1(other)

\* The row an edit commits.
EditedRow(r) == update_file_hash(update_metadata(r.old, r), r)

UnchangedHashes(r) ==
    {r.old.hashes[k] : k \in {c \in HashKeys : SlotUnchanged(r, c)}} \ {None}

\* The pointers of the unchanged columns after a successful edit, and the
\* deletes of an edit.
FramePointers ==
    \A p \in Procs :
        /\ (IsEdit(p) /\ req[p].pc = "done" /\ req[p].status = 200) =>
               \A k \in HashKeys :
                   SlotUnchanged(req[p], k) =>
                       charts[req[p].id].hashes[k] = req[p].old.hashes[k]
        /\ Diffed(p) =>
               OpHashes(req[p], "delete", AnyState) \cap UnchangedHashes(req[p]) = {}

\* The blobs of the unchanged columns across one step of an edit's batch.
FrameBlobs ==
    \A p \in Procs :
        (IsEdit(p) /\ req[p].pc = "gather") =>
            \A hash \in UnchangedHashes(req[p]) :
                LET key == AssetKey(req[p].user, req[p].id, hash) IN
                key \in DOMAIN s3 => (key \in DOMAIN s3' /\ s3'[key] = s3[key])

\* C20: after a successful edit every column the change set leaves unchanged
\* has the hash pointer it had before, and no blob that an unchanged column
\* references is deleted or rewritten with other bytes by the edit.
C20_UnchangedSlotsFrame == []FramePointers /\ [][FrameBlobs]_vars

\* An edit has succeeded that put a blob an unchanged column references.
C20_Witness ==
    \E p \in Procs :
        /\ IsEdit(p) /\ req[p].pc = "done" /\ req[p].status = 200
        /\ UnchangedHashes(req[p]) \cap OpHashes(req[p], "put", {"ok"}) # {}
        /\ OpHashes(req[p], "delete", {"ok"}) # {}

\* The images that pass the jacket's file check.
JacketImages == {f \in JacketFiles : FileCheckOk(f, "image")}

\* C21: in every committed asset set the jacket hash and the two variant
\* hashes are those of one image, and an edit hands update_file_hash the
\* jacket hash and both variant hashes together or none of them.
C21_JacketGroupTogether ==
    /\ \A id \in ChartIds :
        charts[id].exists =>
            \E f \in JacketImages :
                LET g == generate_backgrounds_resize_jacket(f) IN
                /\ charts[id].hashes["jacket_file_hash"] = calculate_sha1(g.jacket)
                /\ charts[id].hashes["background_v1_file_hash"] = calculate_sha1(g.v1)
                /\ charts[id].hashes["background_v3_file_hash"] = calculate_sha1(g.v3)
    /\ \A p \in Procs :
        (IsEdit(p) /\ req[p].dbwrites > 0) =>
            /\ (QueryArg(req[p], "jacket_hash") # None)
                   <=> (QueryArg(req[p], "v1_hash") # None)
            /\ (QueryArg(req[p], "jacket_hash") # None)
                   <=> (QueryArg(req[p], "v3_hash") # None)

\* An edit has committed a jacket other than the one the chart had.
C21_Witness ==
    \E p \in Procs :
        /\ IsEdit(p) /\ req[p].pc = "done" /\ req[p].status = 200
        /\ charts[req[p].id].hashes["jacket_file_hash"]
               # req[p].old.hashes["jacket_file_hash"]

RequiredColumns == HashKeys \ {"preview_file_hash", "background_file_hash"}

\* C22: a chart's row never exists with an empty script, audio, jacket or
\* variant hash; a successful upload has made one database write, its chart
\* exists, and the preview (background) hash is non-empty exactly when a
\* preview (background) file was attached.
C22_UploadCreatesWholeSet ==
    /\ \A id \in ChartIds :
        charts[id].exists =>
            \A k \in RequiredColumns : charts[id].hashes[k] \notin {None, Unbound}
    /\ \A p \in Procs :
        (req[p].kind = "upload" /\ req[p].pc = "done" /\ req[p].status = 200) =>
            /\ req[p].dbwrites = 1
            /\ charts[req[p].id].exists /\ charts[req[p].id].author = req[p].user
            /\ (charts[req[p].id].hashes["preview_file_hash"] # None)
                   <=> req[p].attached["preview"]
            /\ (charts[req[p].id].hashes["background_file_hash"] # None)
                   <=> req[p].attached["background"]
            /\ \A k \in HashKeys : charts[req[p].id].hashes[k] # Unbound
    /\ \A p \in Procs :
        (req[p].kind = "upload" /\ req[p].dbwrites = 0) => ~charts[req[p].id].exists

\* An upload with a preview and without a background has succeeded.
C22_Witness ==
    \E p \in Procs :
        /\ req[p].kind = "upload" /\ req[p].pc = "done" /\ req[p].status = 200
        /\ req[p].attached["preview"] /\ ~req[p].attached["background"]

\* The bytes a script may be stored as.
FinalScripts ==
    ({ConvertUpload(f, debug) : f \in ScriptFiles}
     \cup {ConvertEdit(f) : f \in ScriptFiles}) \ {"error"}

\* C23: every asset blob is stored under the hash of exactly its bytes, and
\* the script and jacket pointers of every chart are hashes of converted and
\* of normalized bytes.
C23_HashOfStoredBytes ==
    /\ \A k \in DOMAIN s3 : Len(k) = 3 => k[3] = calculate_sha1(s3[k])
    /\ \A p \in Procs : \A i \in 1..Len(req[p].s3_uploads) :
        /\ req[p].s3_uploads[i].hash = calculate_sha1(req[p].s3_uploads[i].bytes)
        /\ req[p].s3_uploads[i].path[3] = req[p].s3_uploads[i].hash
    /\ \A id \in ChartIds :
        charts[id].exists =>
            /\ charts[id].hashes["chart_file_hash"]
                   \in {calculate_sha1(b) : b \in FinalScripts}
            /\ charts[id].hashes["jacket_file_hash"]
                   \in {calculate_sha1(generate_backgrounds_resize_jacket(f).jacket) :
                           f \in JacketImages}

\* An upload of a script in a dialect has succeeded: what is stored is not
\* what was submitted.
C23_Witness ==
    \E p \in Procs :
        /\ req[p].kind = "upload" /\ req[p].pc = "done" /\ req[p].status = 200
        /\ ScriptInfo(req[p].script).fmt = "sus"
        /\ charts[req[p].id].hashes["chart_file_hash"] # calculate_sha1(req[p].script)

\* gzip.decompress: the payload of a gzip stream.
Gunzip(g) ==
    CASE g = "lvd_py_gz" -> "lvd_py"
      [] g = "lvd_ns_gz" -> "lvd_ns"
      [] OTHER -> "not_gzip"

\* The request has accepted a canonical payload as its script.
CanonicalAccepted(p) ==
    /\ Converted(p)
    /\ ScriptInfo(req[p].script).fmt = "lvd"
    /\ req[p].h["chart_hash"] # Unbound

C25_DeletesOnlyPriorHashes ==
    \A p \in Procs :
        Diffed(p) =>
            OpHashes(req[p], "delete", AnyState)
                \subseteq ({req[p].old.hashes[k] : k \in HashKeys} \ {None})

\* The edit was handed, with includes_jacket, a jacket file whose bytes hash
\* to the chart's jacket hash: the handler then leaves the variants alone.
SameJacketBytes(p) ==
    /\ IsEdit(p)
    /\ req[p].attached["jacket"] /\ req[p].data["includes_jacket"]
    /\ req[p].h["jacket_hash"] = req[p].old.hashes["jacket_file_hash"]
    /\ req[p].h["v1_hash"] = Unbound

\* C26: an edit that resubmits the jacket's stored bytes with includes_jacket
\* ends without a server error, leaves the jacket and variant pointers as they
\* were, and issues no put or delete for the jacket group.
C26_SameJacketSucceeds ==
    \A p \in Procs :
        (SameJacketBytes(p) /\ req[p].pc = "done" /\ req[p].status \notin {400, 413}) =>
            /\ req[p].status = 200
            /\ \A k \in JacketGroup :
                /\ charts[req[p].id].hashes[k] = req[p].old.hashes[k]
                /\ req[p].old.hashes[k] \notin OpHashes(req[p], "delete", AnyState)
                /\ req[p].old.hashes[k] \notin OpHashes(req[p], "put", AnyState)

\* No process other than p has started a request.
OnlyProc(p) == \A q \in Procs \ {p} : req[q].kind = "none"

\* The keys of the two blobs of a leaderboard record of the request's chart.
RecordKeys(r, l) ==
    {ReplayKey(r.old.author, r.id, l.submitter, l.replay_data_hash),
     ReplayKey(r.old.author, r.id, l.submitter, l.replay_config_hash)}

\* C27: after a successful replay upload that replaced the submitter's
\* record, with no other request around, the new record is in the table and
\* both of its blobs exist.
C27_ReplacedRecordHasBlobs ==
    \A p \in Procs :
        (/\ req[p].kind = "replay" /\ req[p].pc = "done" /\ req[p].result = "ok"
         /\ req[p].curr # NoRecord
         /\ OnlyProc(p)) =>
            /\ ReplayRecord(req[p]) \in leaderboards
            /\ RecordKeys(req[p], ReplayRecord(req[p])) \subseteq DOMAIN s3

\* C28: when a replay upload that passed the score comparison against a
\* previous record ends with a server error, with no other request around,
\* the previous record is still in the table and its two blobs still exist.
C28_FailureKeepsPreviousRecord ==
    \A p \in Procs :
        (/\ req[p].kind = "replay" /\ req[p].pc = "done" /\ req[p].status = 500
         /\ req[p].at \in {"gather", "commit"}
         /\ req[p].curr # NoRecord
         /\ OnlyProc(p)) =>
            /\ req[p].curr \in leaderboards
            /\ RecordKeys(req[p], req[p].curr) \subseteq DOMAIN s3

\* C29: the table never holds two records of one submitter for one chart.
C29_OneRecordPerSubmitter ==
    \A l1, l2 \in leaderboards :
        (l1.chart_id = l2.chart_id /\ l1.submitter = l2.submitter) => l1 = l2

\* The edit in flight leaves every hash column of the chart as it found it.
KeepsEveryHash(p) ==
    /\ IsEdit(p) /\ req[p].pc \in {"gather", "commit"}
    /\ ~QueryRaises(req[p])
    /\ update_file_hash(req[p].old, req[p]).hashes = req[p].old.hashes

\* C30: a step taken while the one edit in flight leaves every hash column
\* unchanged removes no leaderboard record and no replay blob of the chart.
C30_NoOpEditKeepsLeaderboard ==
    [][\A p \in Procs :
         KeepsEveryHash(p) =>
            /\ {l \in leaderboards : l.chart_id = req[p].id} \subseteq leaderboards'
            /\ \A k \in DOMAIN s3 :
                 IsReplayKey(k, req[p].old.author, req[p].id) => k \in DOMAIN s3']_vars

\* The keys of the two blobs of a leaderboard record.
RecordBlobs(l) ==
    {ReplayKey(charts[l.chart_id].author, l.chart_id, l.submitter, l.replay_data_hash),
     ReplayKey(charts[l.chart_id].author, l.chart_id, l.submitter, l.replay_config_hash)}

\* C31: when an edit has ended, every leaderboard record of its chart still
\* has its two replay blobs, and when it has ended with success the chart has
\* leaderboard records exactly when it has objects under its replays/ prefix.
C31_LeaderboardClearedWithReplays ==
    \A p \in Procs :
        (IsEdit(p) /\ req[p].pc = "done") =>
            /\ \A l \in leaderboards :
                 l.chart_id = req[p].id => RecordBlobs(l) \subseteq DOMAIN s3
            /\ req[p].status = 200 =>
                 ((\E l \in leaderboards : l.chart_id = req[p].id)
                  <=> (\E k \in DOMAIN s3 :
                          IsReplayKey(k, charts[req[p].id].author, req[p].id)))

\* C32: every put and delete an edit hands to the object store names a key
\* under the prefix of the edited chart: its first component is the chart's
\* author and its second the chart's id.
C32_EditKeysUnderChartPrefix ==
    \A p \in Procs :
        IsEdit(p) =>
            \A i \in 1..Len(req[p].tasks) :
                /\ req[p].tasks[i].key[1] = charts[req[p].id].author
                /\ req[p].tasks[i].key[2] = req[p].id

\* An edit has put one blob and deleted another.
C32_Witness ==
    \E p \in Procs :
        /\ IsEdit(p) /\ req[p].pc = "done" /\ req[p].status = 200
        /\ \E i, j \in 1..Len(req[p].tasks) :
            /\ req[p].tasks[i].op = "put" /\ req[p].tasks[i].st = "ok"
            /\ req[p].tasks[j].op = "delete" /\ req[p].tasks[j].st = "ok"

\* The step starts an upload of process p.
StartsUpload(p) ==
    /\ Free(p) /\ nreq' = nreq + 1
    /\ req'[p].kind = "upload"

\* The user's cooldown lies in the future.
OnCooldown(user) ==
    /\ accounts[user].chart_upload_cooldown # <<>>
    /\ now < accounts[user].chart_upload_cooldown[1]

\* The request has handed nothing to the object store and has written
\* nothing to the database.
NoStoreCall(r) ==
    /\ r.tasks = <<>> /\ r.s3_uploads = <<>>
    /\ r.dbwrites = 0 /\ ~r.dbfailed

\* An upload that starts outside debug mode while its user's cooldown lies
\* in the future ends at once, with 429 unless its data is rejected first.
CooldownRejects ==
    \A p \in Procs :
        (StartsUpload(p) /\ ~debug /\ OnCooldown(req'[p].user)) =>
            /\ req'[p].pc = "done"
            /\ req'[p].status \in {422, 400, 429}
            /\ (req'[p].meta = AtLimit(MAX_RATINGS.max)) => req'[p].status = 429
            /\ NoStoreCall(req'[p])
            /\ UNCHANGED Stores

\* The step creates a chart of the user.
CreatesChart(u) ==
    \E id \in ChartIds :
        ~charts[id].exists /\ charts'[id].exists /\ charts'[id].author = u

\* A step that creates a chart of a user sets the user's cooldown a minute
\* ahead, and no other step changes a cooldown.
CooldownWithChart ==
    \A u \in Accounts :
        /\ CreatesChart(u) =>
              accounts'[u].chart_upload_cooldown = <<now + UploadCooldown>>
        /\ (accounts'[u] # accounts[u]) => CreatesChart(u)

StartsReplay(p) ==
    /\ Free(p) /\ nreq' = nreq + 1
    /\ req'[p].seq = nreq'
    /\ req'[p].kind = "replay"

\* The submitter of the starting replay upload has exactly one record for
\* the chart, and the effective score of the upload is not greater than
\* that record's.
NotBetter(r) ==
    /\ ReplayValid(r.replay.data)
    /\ \E l \in leaderboards :
        /\ {x \in leaderboards : x.chart_id = r.id /\ x.submitter = r.user} = {l}
        /\ EffectiveScore(ArcadeScore(r.replay.data), r.replay.speed)
               <= EffectiveScore(l.arcade_score, l.speed)

StartsDelete(p) ==
    /\ Free(p) /\ nreq' = nreq + 1
    /\ req'[p].seq = nreq'
    /\ req'[p].kind = "delete_record"

\* C35: a record deletion request removes the record exactly when the record
\* exists and the requester is its submitter, a mod or an admin; any other
\* requester gets 403, a request for a record that does not exist gets 404,
\* and in both cases the table stays as it is.
C35_DeleteRecordAuthorized ==
    [][\A p \in Procs :
         StartsDelete(p) =>
            LET r == req'[p]
                target == {l \in leaderboards :
                              l.id = r.record_id /\ l.chart_id = r.id}
                allowed(l) == \/ l.submitter = r.user
                              \/ accounts[r.user].mod \/ accounts[r.user].admin
            IN  /\ target = {} => (r.status = 404 /\ leaderboards' = leaderboards)
                /\ \A l \in target :
                     IF allowed(l)
                     THEN r.status = 200 /\ leaderboards' = leaderboards \ {l}
                     ELSE r.status = 403 /\ leaderboards' = leaderboards
                /\ UNCHANGED <<charts, s3, accounts>>]_vars

\* A mod has deleted a record of another user.
C35_Witness ==
    \E p \in Procs :
        /\ req[p].kind = "delete_record" /\ req[p].status = 200
        /\ req[p].curr.submitter # req[p].user
        /\ accounts[req[p].user].mod
        /\ req[p].curr \notin leaderboards

====
